---- MODULE Spec2Model ----
(***************************************************************************)
(* A model of the GLUtils resource layer of mathviz                        *)
(* (src/lib/glutils/cpp/glutils.cpp, header src/unnamed/part_000):         *)
(* BufferLayout, BufferBase, Shader, Pipeline, Program, VAO, Texture2D,    *)
(* together with the part of the OpenGL core-profile device state machine  *)
(* that these classes drive.                                               *)
(***************************************************************************)
EXTENDS Integers, Sequences, FiniteSets, TLC

VARIABLES
    layout,     \* BufferLayout::layout  (vector<AttributeLayout>)
    stride,     \* BufferLayout::stride  (unsigned int)
    history,    \* the calls made so far (SpecLayout, SpecTeardown, SpecOwnership)
    gl,         \* the device: buffers, bindings, vertex arrays, shaders, programs
    bufs,       \* the BufferBase objects: handle and type
    vaos,       \* the VAO objects: handle
    texs,       \* the Texture2D objects: texture
    progs,      \* the Program objects: handle
    shaders,    \* Pipeline::shaders, a map ShaderType -> Shader handle
    file,       \* the bytes of the file Pipeline::init reads
    last,       \* the last operation of the layer: name, object, arguments, result
    calls,      \* the device calls the last operation issued, in order
    wr,         \* the most recent write into a buffer and what followed it
    crashed     \* "" while the process runs, else why it was aborted

vars == <<layout, stride, history, gl, bufs, vaos, texs, progs, shaders, file,
          last, calls, wr, crashed>>

(***************************************************************************)
(* Bounds of the model.                                                    *)
(***************************************************************************)
MaxAttrs == 2        \* addAttribute calls on the layout object of SpecLayout
MaxSize == 2         \* bytes in a buffer's data store
MaxLayoutLen == 2    \* attributes of a layout handed to a buffer
MaxStack == 3        \* frames the call stack holds before it overflows
MaxLoop == 4         \* iterations of the marker loop of Pipeline::init that are followed
MaxOps == 3          \* operations in a run of SpecTeardown
MaxDim == 2          \* width and height of a decoded image
MaxOwnOps == 3
MaxVaoOps == 4
MaxShaderOps == 4       \* operations in a run of SpecOwnership
MaxCurveVerts == 3       \* samples of a curve
MaxRange == 2            \* largest bound of an axis range
MaxMarkDh == 2           \* largest spacing of the axis marks

(***************************************************************************)
(* Small helpers.                                                          *)
(***************************************************************************)
RECURSIVE SumSeq(_)
SumSeq(s) == IF s = <<>> THEN 0 ELSE Head(s) + SumSeq(Tail(s))

Range(s) == {s[i] : i \in 1..Len(s)}

(***************************************************************************)
(* BufferLayout                                                            *)
(***************************************************************************)
VertexTypes == {"Int", "Float"}

getTypeSize(type) ==
    CASE type = "Int" -> 4
      [] type = "Float" -> 4

\* One AttributeLayout { count, type, normalized }.
AttributeLayout(count, type, normalized) ==
    [count |-> count, type |-> type, normalized |-> normalized]

\* A default-constructed BufferLayout: no attribute, stride 0.
EmptyLayout == [layout |-> <<>>, stride |-> 0]

\* A faulty BufferLayout(int count), whose stride counts the pre-sized elements
\* as one Int each.
BufferLayoutSized_Counted(count) ==
    [layout |-> [i \in 1..count |-> AttributeLayout(0, "Int", FALSE)],
     stride |-> count * getTypeSize("Int")]

\* BufferLayout(int count) : layout(count), stride(0): count value-initialised
\* attributes { 0, VertexType::Int, false } and stride 0.
BufferLayoutSized(count) ==
    [layout |-> [i \in 1..count |-> AttributeLayout(0, "Int", FALSE)],
     stride |-> 0]

\* A faulty addAttribute, whose stride forgets the count: C1 tells it from the code.
addAttribute_NoCount(l, type, count, normalized) ==
    [layout |-> Append(l.layout, AttributeLayout(count, type, normalized)),
     stride |-> l.stride + getTypeSize(type)]

\* layout.push_back({count, type, normalized}); stride += getTypeSize(type) * count;
\* (stride is an unsigned int; the strides of the model stay far below 2^32)
addAttribute(l, type, count, normalized) ==
    [layout |-> Append(l.layout, AttributeLayout(count, type, normalized)),
     stride |-> l.stride + getTypeSize(type) * count]

getAttributes(l) == l.layout

getStride(l) == l.stride


(***************************************************************************)
(* The result channel: EC::ErrorCode.                                      *)
(***************************************************************************)
\* EC::ErrorCode(): no error.
NoError == [status |-> "ok", message |-> <<>>]

\* EC::ErrorCode(status, fmt, args...)
ErrorCode(status, fmt, args) == [status |-> status, message |-> <<fmt>> \o args]

hasError(ec) == ec.status # "ok"

(***************************************************************************)
(* The device (OpenGL, core profile: main.cpp asks for                     *)
(* GLFW_OPENGL_CORE_PROFILE).  Object names are 1..MaxNames, 0 is the null *)
(* object.  Only the state the layer reads or writes is kept.              *)
(***************************************************************************)
Names == {1, 2}
Bytes == {0, 1}
Slots == 0..(MaxLayoutLen - 1)
Targets == {"GL_ARRAY_BUFFER", "GL_ELEMENT_ARRAY_BUFFER",
            "GL_UNIFORM_BUFFER", "GL_SHADER_STORAGE_BUFFER"}

NoStore == [store |-> <<>>, mapped |-> FALSE]
NoAttrib == [enabled |-> FALSE, count |-> 4, type |-> "GL_FLOAT", normalized |-> FALSE,
             stride |-> 0, offset |-> 0, buffer |-> 0]
\* Shader and program objects share one name space.
ObjNames == {1, 2, 3}
NoShader == [kind |-> "", src |-> <<>>, compiled |-> FALSE, flagged |-> FALSE]
\* Every linked program has one active uniform, a float named "u" at location
\* 0; uniform is its value.
NoProgram == [attached |-> {}, linked |-> FALSE, uniform |-> 0]
ActiveUniforms == {"u"}
NoLocation == 0 - 1

GLInit ==
    [err |-> "GL_NO_ERROR",
     bufNames |-> {}, buffers |-> [n \in Names |-> NoStore],
     bound |-> [t \in Targets |-> 0],
     vaoNames |-> {}, vaoBound |-> 0,
     element |-> [n \in Names \cup {0} |-> 0],
     attribs |-> [n \in Names |-> [s \in Slots |-> NoAttrib]],
     texNames |-> {}, texBound |-> 0,
     shaderNames |-> {}, shader |-> [n \in ObjNames |-> NoShader],
     progNames |-> {}, program |-> [n \in ObjNames |-> NoProgram], curProgram |-> 0]

\* The device records the first error raised since the last glGetError.
SetErr(g, e) == IF g.err = "GL_NO_ERROR" THEN [g EXCEPT !.err = e] ELSE g

\* A device call as the layer issues it: the function and its arguments.
Call(op, args) == [op |-> op, args |-> args]

glGenBuffers(g, n) == [g EXCEPT !.bufNames = @ \cup {n}, !.buffers[n] = NoStore]

\* The GL_ELEMENT_ARRAY_BUFFER binding is state of the vertex array object
\* that is bound (element[0] with none bound): binding to that target, 0
\* included, is recorded there.
glBindBuffer(g, target, name) ==
    IF name # 0 /\ name \notin g.bufNames THEN SetErr(g, "GL_INVALID_OPERATION")
    ELSE IF target = "GL_ELEMENT_ARRAY_BUFFER"
    THEN [g EXCEPT !.bound[target] = name, !.element[g.vaoBound] = name]
    ELSE [g EXCEPT !.bound[target] = name]

\* A source pointer: NULL, or the bytes it points to.
NullData == [null |-> TRUE, bytes |-> <<>>]
Data(bytes) == [null |-> FALSE, bytes |-> bytes]

\* With a NULL source the store's content is whatever the device left there
\* (env.junk).
glBufferData(g, target, size, data, env) ==
    LET b == g.bound[target] IN
    IF size < 0 THEN SetErr(g, "GL_INVALID_VALUE")
    ELSE IF b = 0 THEN SetErr(g, "GL_INVALID_OPERATION")
    ELSE IF env.oom THEN SetErr(g, "GL_OUT_OF_MEMORY")
    ELSE [g EXCEPT !.buffers[b] =
            [store |-> IF data.null THEN SubSeq(env.junk, 1, size)
                       ELSE SubSeq(data.bytes, 1, size),
             mapped |-> FALSE]]

glBufferSubData(g, target, offset, size, data) ==
    LET b == g.bound[target] IN
    IF b = 0 THEN SetErr(g, "GL_INVALID_OPERATION")
    ELSE IF offset < 0 \/ size < 0 \/ offset + size > Len(g.buffers[b].store)
         THEN SetErr(g, "GL_INVALID_VALUE")
    ELSE IF g.buffers[b].mapped THEN SetErr(g, "GL_INVALID_OPERATION")
    ELSE [g EXCEPT !.buffers[b].store =
            [k \in 1..Len(@) |->
                IF k > offset /\ k <= offset + size THEN data.bytes[k - offset] ELSE @[k]]]

glMapBuffer(g, target, access, env) ==
    LET b == g.bound[target] IN
    IF b = 0 \/ g.buffers[b].mapped THEN SetErr(g, "GL_INVALID_OPERATION")
    ELSE IF env.oom THEN SetErr(g, "GL_OUT_OF_MEMORY")
    ELSE [g EXCEPT !.buffers[b].mapped = TRUE]

\* What glMapBuffer returns: the buffer whose store the pointer exposes, 0 for NULL.
glMapBufferResult(g, target, env) ==
    LET b == g.bound[target] IN
    IF b = 0 \/ g.buffers[b].mapped \/ env.oom THEN 0 ELSE b

glUnmapBuffer(g, target) ==
    LET b == g.bound[target] IN
    IF b = 0 \/ ~g.buffers[b].mapped THEN SetErr(g, "GL_INVALID_OPERATION")
    ELSE [g EXCEPT !.buffers[b].mapped = FALSE]

\* Unused names and 0 are silently ignored; a deleted buffer is unbound.
glDeleteBuffers(g, name) ==
    IF name \notin g.bufNames THEN g
    ELSE [g EXCEPT !.bufNames = @ \ {name}, !.buffers[name] = NoStore,
                   !.bound = [t \in Targets |-> IF @[t] = name THEN 0 ELSE @[t]],
                   !.element[g.vaoBound] = IF @ = name THEN 0 ELSE @]

glVertexAttribPointer(g, index, count, type, normalized, strd, offset) ==
    IF count \notin 1..4 \/ index \notin Slots THEN SetErr(g, "GL_INVALID_VALUE")
    ELSE IF g.vaoBound = 0 THEN SetErr(g, "GL_INVALID_OPERATION")
    ELSE IF g.bound["GL_ARRAY_BUFFER"] = 0 /\ offset # 0 THEN SetErr(g, "GL_INVALID_OPERATION")
    ELSE [g EXCEPT !.attribs[g.vaoBound][index] =
            [enabled |-> @.enabled, count |-> count, type |-> type,
             normalized |-> normalized, stride |-> strd, offset |-> offset,
             buffer |-> g.bound["GL_ARRAY_BUFFER"]]]

glEnableVertexAttribArray(g, index) ==
    IF index \notin Slots THEN SetErr(g, "GL_INVALID_VALUE")
    ELSE IF g.vaoBound = 0 THEN SetErr(g, "GL_INVALID_OPERATION")
    ELSE [g EXCEPT !.attribs[g.vaoBound][index].enabled = TRUE]

glGenVertexArrays(g, n) ==
    [g EXCEPT !.vaoNames = @ \cup {n}, !.attribs[n] = [s \in Slots |-> NoAttrib],
              !.element[n] = 0]

\* Binding a vertex array object makes its element buffer the current one.
glBindVertexArray(g, name) ==
    IF name = 0 \/ name \in g.vaoNames
    THEN [g EXCEPT !.vaoBound = name,
                   !.bound["GL_ELEMENT_ARRAY_BUFFER"] = g.element[name]]
    ELSE SetErr(g, "GL_INVALID_OPERATION")

glDeleteVertexArrays(g, name) ==
    IF name \notin g.vaoNames THEN g
    ELSE [g EXCEPT !.vaoNames = @ \ {name},
                   !.attribs[name] = [s \in Slots |-> NoAttrib],
                   !.element[name] = 0,
                   !.vaoBound = IF @ = name THEN 0 ELSE @,
                   !.bound["GL_ELEMENT_ARRAY_BUFFER"] =
                       IF g.vaoBound = name THEN g.element[0] ELSE @]

\* Textures: only the names and the 2D binding are kept.
glGenTextures(g, n) == [g EXCEPT !.texNames = @ \cup {n}]

glBindTexture(g, name) ==
    IF name # 0 /\ name \notin g.texNames THEN SetErr(g, "GL_INVALID_OPERATION")
    ELSE [g EXCEPT !.texBound = name]

\* glTexParameteri and glTexImage2D act on the texture bound to GL_TEXTURE_2D.
glTexParameteri(g) ==
    IF g.texBound = 0 THEN SetErr(g, "GL_INVALID_OPERATION") ELSE g

glTexImage2D(g, width, height, env) ==
    IF width < 0 \/ height < 0 THEN SetErr(g, "GL_INVALID_VALUE")
    ELSE IF g.texBound = 0 THEN SetErr(g, "GL_INVALID_OPERATION")
    ELSE IF env.oom THEN SetErr(g, "GL_OUT_OF_MEMORY") ELSE g

glGenerateMipmap(g) ==
    IF g.texBound = 0 THEN SetErr(g, "GL_INVALID_OPERATION") ELSE g

\* glDeleteTextures silently ignores 0 and names that are not textures.
glDeleteTextures(g, name) ==
    IF name \notin g.texNames THEN g
    ELSE [g EXCEPT !.texNames = @ \ {name},
                   !.texBound = IF @ = name THEN 0 ELSE @]

\* The name the device hands out for a new shader or program object, 0 when it
\* has none left.
FreeObjNames(g) == ObjNames \ (g.shaderNames \cup g.progNames)
NewObjName(g) ==
    IF FreeObjNames(g) = {} THEN 0
    ELSE CHOOSE n \in FreeObjNames(g) : \A m \in FreeObjNames(g) : n <= m

glCreateShader(g, kind, name) ==
    IF name = 0 THEN SetErr(g, "GL_OUT_OF_MEMORY")
    ELSE [g EXCEPT !.shaderNames = @ \cup {name},
                   !.shader[name] = [NoShader EXCEPT !.kind = kind]]

\* A name that is no shader object: GL_INVALID_VALUE if the device never
\* generated it, GL_INVALID_OPERATION if it names a program.
NotAShader(g, name) ==
    SetErr(g, IF name \in g.progNames THEN "GL_INVALID_OPERATION" ELSE "GL_INVALID_VALUE")

NotAProgram(g, name) ==
    SetErr(g, IF name \in g.shaderNames THEN "GL_INVALID_OPERATION" ELSE "GL_INVALID_VALUE")

glShaderSource(g, name, src) ==
    IF name \notin g.shaderNames THEN NotAShader(g, name)
    ELSE [g EXCEPT !.shader[name].src = src]

\* The compiler accepts or rejects the source: env.rejects holds the stage
\* kinds whose source it rejects.
glCompileShader(g, name, env) ==
    IF name \notin g.shaderNames THEN NotAShader(g, name)
    ELSE [g EXCEPT !.shader[name].compiled = (g.shader[name].kind \notin env.rejects)]

\* glGetShaderiv, glGetShaderInfoLog
glShaderQuery(g, name) ==
    IF name \notin g.shaderNames THEN NotAShader(g, name) ELSE g

AttachedTo(g, name) == {p \in g.progNames : name \in g.program[p].attached}

\* glDeleteShader silently ignores 0; a shader that is attached to a program
\* is flagged and deleted when it is detached.
glDeleteShader(g, name) ==
    IF name = 0 THEN g
    ELSE IF name \notin g.shaderNames THEN NotAShader(g, name)
    ELSE IF AttachedTo(g, name) # {} THEN [g EXCEPT !.shader[name].flagged = TRUE]
    ELSE [g EXCEPT !.shaderNames = @ \ {name}, !.shader[name] = NoShader]

glCreateProgram(g, name) ==
    IF name = 0 THEN SetErr(g, "GL_OUT_OF_MEMORY")
    ELSE [g EXCEPT !.progNames = @ \cup {name}, !.program[name] = NoProgram]

glAttachShader(g, prog, name) ==
    IF prog \notin g.progNames THEN NotAProgram(g, prog)
    ELSE IF name \notin g.shaderNames THEN NotAShader(g, name)
    ELSE IF name \in g.program[prog].attached THEN SetErr(g, "GL_INVALID_OPERATION")
    ELSE [g EXCEPT !.program[prog].attached = @ \cup {name}]

\* Linking fails when an attached shader is not compiled; otherwise the linker
\* decides (env.link).
glLinkProgram(g, prog, env) ==
    IF prog \notin g.progNames THEN NotAProgram(g, prog)
    ELSE [g EXCEPT !.program[prog].linked =
              /\ env.link
              /\ \A s \in g.program[prog].attached : g.shader[s].compiled]

\* glGetProgramiv, glGetProgramInfoLog
glProgramQuery(g, prog) ==
    IF prog \notin g.progNames THEN NotAProgram(g, prog) ELSE g

\* The shaders of the set that are flagged and attached to no program go.
Sweep(g, set) ==
    LET gone == {s \in set : g.shader[s].flagged /\ AttachedTo(g, s) = {}}
    IN [g EXCEPT !.shaderNames = @ \ gone,
                 !.shader = [n \in ObjNames |-> IF n \in gone THEN NoShader ELSE @[n]]]

glDetachShader(g, prog, name) ==
    IF prog \notin g.progNames THEN NotAProgram(g, prog)
    ELSE IF name \notin g.shaderNames THEN NotAShader(g, name)
    ELSE IF name \notin g.program[prog].attached THEN SetErr(g, "GL_INVALID_OPERATION")
    ELSE Sweep([g EXCEPT !.program[prog].attached = @ \ {name}], {name})

\* glDeleteProgram silently ignores 0; the shaders attached to the program are
\* detached from it.
glDeleteProgram(g, prog) ==
    IF prog = 0 THEN g
    ELSE IF prog \notin g.progNames THEN NotAProgram(g, prog)
    ELSE Sweep([g EXCEPT !.progNames = @ \ {prog}, !.program[prog] = NoProgram,
                         !.curProgram = IF @ = prog THEN 0 ELSE @],
               g.program[prog].attached)

\* glUseProgram(0) leaves no program current; a program that is not linked
\* cannot be made current.
glUseProgram(g, prog) ==
    IF prog = 0 THEN [g EXCEPT !.curProgram = 0]
    ELSE IF prog \notin g.progNames THEN NotAProgram(g, prog)
    ELSE IF ~g.program[prog].linked THEN SetErr(g, "GL_INVALID_OPERATION")
    ELSE [g EXCEPT !.curProgram = prog]

glGetUniformLocation(g, prog, name) ==
    IF prog \notin g.progNames THEN NotAProgram(g, prog)
    ELSE IF ~g.program[prog].linked THEN SetErr(g, "GL_INVALID_OPERATION")
    ELSE g

\* What glGetUniformLocation returns: -1 on an error and for a name that is
\* no active uniform of the program.
glGetUniformLocationResult(g, prog, name) ==
    IF prog \in g.progNames /\ g.program[prog].linked /\ name \in ActiveUniforms
    THEN 0 ELSE NoLocation

\* glUniform1f writes to the program in use.  Location -1 is silently ignored;
\* with no program in use a device either ignores it as well or raises
\* GL_INVALID_OPERATION first (env.strict).
glUniform1f(g, location, value, env) ==
    IF g.curProgram = 0
    THEN IF location = NoLocation /\ ~env.strict THEN g
         ELSE SetErr(g, "GL_INVALID_OPERATION")
    ELSE IF location = NoLocation THEN g
    ELSE IF location # 0 THEN SetErr(g, "GL_INVALID_OPERATION")
    ELSE [g EXCEPT !.program[g.curProgram].uniform = value]


(***************************************************************************)
(* Running device calls the way the layer does.  An operation of the layer *)
(* is carried by a record r:                                               *)
(*   gl      the device,                                                   *)
(*   ret     the EC::ErrorCode the operation returns (NoError so far),     *)
(*   done    whether the operation has returned,                           *)
(*   calls   the device calls issued so far,                               *)
(*   crashed why the process was aborted, "" if it was not,                *)
(*   out     the value written through an out parameter.                   *)
(* env holds what the device decides during the operation: the name it     *)
(* hands out, whether it runs out of memory, the content of uninitialised  *)
(* memory, whether compilation and linking succeed.                        *)
(***************************************************************************)
Start(g) == [gl |-> g, ret |-> NoError, done |-> FALSE, calls |-> <<>>,
             crashed |-> "", out |-> 0]

Stopped(r) == r.done \/ r.crashed # ""

Return(r, ec) == IF Stopped(r) THEN r ELSE [r EXCEPT !.ret = ec, !.done = TRUE]

Abort(r, why) == IF Stopped(r) THEN r ELSE [r EXCEPT !.crashed = why]

getGLErrorString(err) == err

\* err = glGetError(); the flag is cleared by the query.
checkGLError(g) ==
    [gl |-> [g EXCEPT !.err = "GL_NO_ERROR"],
     ec |-> IF g.err # "GL_NO_ERROR"
            THEN ErrorCode(g.err, "OpenGL error: %s", <<getGLErrorString(g.err)>>)
            ELSE NoError]

glExec(g, c, env) ==
    CASE c.op = "glGenBuffers" -> glGenBuffers(g, c.args[1])
      [] c.op = "glBindBuffer" -> glBindBuffer(g, c.args[1], c.args[2])
      [] c.op = "glBufferData" -> glBufferData(g, c.args[1], c.args[2], c.args[3], env)
      [] c.op = "glBufferSubData" ->
            glBufferSubData(g, c.args[1], c.args[2], c.args[3], c.args[4])
      [] c.op = "glMapBuffer" -> glMapBuffer(g, c.args[1], c.args[2], env)
      [] c.op = "glUnmapBuffer" -> glUnmapBuffer(g, c.args[1])
      [] c.op = "glDeleteBuffers" -> glDeleteBuffers(g, c.args[1])
      [] c.op = "glVertexAttribPointer" ->
            glVertexAttribPointer(g, c.args[1], c.args[2], c.args[3], c.args[4],
                                  c.args[5], c.args[6])
      [] c.op = "glEnableVertexAttribArray" -> glEnableVertexAttribArray(g, c.args[1])
      [] c.op = "glGenVertexArrays" -> glGenVertexArrays(g, c.args[1])
      [] c.op = "glBindVertexArray" -> glBindVertexArray(g, c.args[1])
      [] c.op = "glDeleteVertexArrays" -> glDeleteVertexArrays(g, c.args[1])
      [] c.op = "glGenTextures" -> glGenTextures(g, c.args[1])
      [] c.op = "glBindTexture" -> glBindTexture(g, c.args[1])
      [] c.op = "glTexParameteri" -> glTexParameteri(g)
      [] c.op = "glTexImage2D" -> glTexImage2D(g, c.args[1], c.args[2], env)
      [] c.op = "glGenerateMipmap" -> glGenerateMipmap(g)
      [] c.op = "glDeleteTextures" -> glDeleteTextures(g, c.args[1])
      [] c.op = "glCreateShader" -> glCreateShader(g, c.args[1], c.args[2])
      [] c.op = "glShaderSource" -> glShaderSource(g, c.args[1], c.args[2])
      [] c.op = "glCompileShader" -> glCompileShader(g, c.args[1], env)
      [] c.op \in {"glGetShaderiv", "glGetShaderInfoLog"} -> glShaderQuery(g, c.args[1])
      [] c.op = "glDeleteShader" -> glDeleteShader(g, c.args[1])
      [] c.op = "glCreateProgram" -> glCreateProgram(g, c.args[1])
      [] c.op = "glAttachShader" -> glAttachShader(g, c.args[1], c.args[2])
      [] c.op = "glLinkProgram" -> glLinkProgram(g, c.args[1], env)
      [] c.op \in {"glGetProgramiv", "glGetProgramInfoLog"} -> glProgramQuery(g, c.args[1])
      [] c.op = "glDetachShader" -> glDetachShader(g, c.args[1], c.args[2])
      [] c.op = "glDeleteProgram" -> glDeleteProgram(g, c.args[1])
      [] c.op = "glUseProgram" -> glUseProgram(g, c.args[1])
      [] c.op = "glGetUniformLocation" -> glGetUniformLocation(g, c.args[1], c.args[2])
      [] c.op = "glUniform1f" -> glUniform1f(g, c.args[1], c.args[2], env)

\* GLCall; with no query of the error flag after it.
Issue(r, c, env) ==
    IF Stopped(r) THEN r
    ELSE [r EXCEPT !.gl = glExec(r.gl, c, env), !.calls = Append(@, c)]

\* const EC::ErrorCode err = checkGLError(): the query is a device call too.
Query(r) ==
    [r EXCEPT !.gl = checkGLError(r.gl).gl, !.calls = Append(@, Call("glGetError", <<>>))]

\* RETURN_ON_GL_ERROR(GLCall): GLCall; err = checkGLError(); if (err.hasError()) return err;
RETURN_ON_GL_ERROR(r, c, env) ==
    IF Stopped(r) THEN r
    ELSE LET r1 == Issue(r, c, env)
             ec == checkGLError(r1.gl).ec
         IN IF hasError(ec) THEN Return(Query(r1), ec) ELSE Query(r1)

\* GLCall; assert(checkGLError().hasError() == false);
ASSERT_NO_GL_ERROR(r, c, env) ==
    IF Stopped(r) THEN r
    ELSE LET r1 == Issue(r, c, env)
             ec == checkGLError(r1.gl).ec
         IN IF hasError(ec) THEN Abort(Query(r1), "assertion failed") ELSE Query(r1)


\* RETURN_ON_ERROR_CODE(call): the callee has returned; go on unless it failed.
RETURN_ON_ERROR_CODE(r) ==
    IF r.crashed # "" \/ hasError(r.ret) THEN r ELSE [r EXCEPT !.done = FALSE]

\* The value of r, computed once, handed to F.
Bind(r, F(_)) == CHOOSE x \in {F(y) : y \in {r}} : TRUE

\* RETURN_ON_ERROR_CODE(F(r)) for an operation F of the layer.
Sub(r, F(_)) == Bind(Bind(r, F), RETURN_ON_ERROR_CODE)

(***************************************************************************)
(* BufferBase                                                              *)
(***************************************************************************)
BufferTypes == {"Vertex", "Index", "Uniform", "ShaderStorage"}

convertBufferType(type) ==
    CASE type = "Vertex" -> "GL_ARRAY_BUFFER"
      [] type = "Index" -> "GL_ELEMENT_ARRAY_BUFFER"
      [] type = "Uniform" -> "GL_UNIFORM_BUFFER"
      [] type = "ShaderStorage" -> "GL_SHADER_STORAGE_BUFFER"

convertVertexType(type) ==
    CASE type = "Int" -> "GL_INT"
      [] type = "Float" -> "GL_FLOAT"

AccessTypes == {"Read", "Write", "ReadWrite"}

convertBufferAccesType(type) ==
    CASE type = "Read" -> "GL_READ_ONLY"
      [] type = "Write" -> "GL_WRITE_ONLY"
      [] type = "ReadWrite" -> "GL_READ_WRITE"

\* BufferBase::BufferBase(BufferType type): type(convertBufferType(type)), handle(0)
BufferBase(type) == [handle |-> 0, type |-> convertBufferType(type)]

BufferBase_bind(r, b, env) ==
    Return(RETURN_ON_GL_ERROR(r, Call("glBindBuffer", <<b.type, b.handle>>), env), NoError)

BufferBase_unbind(r, b, env) ==
    Return(RETURN_ON_GL_ERROR(r, Call("glBindBuffer", <<b.type, 0>>), env), NoError)

\* A faulty offset step, which forgets the count: C2 tells it from the code.
nextOffset_NoCount(offset, attribute) == offset + getTypeSize(attribute.type)

\* offset += attribute.count * getTypeSize(attribute.type);
nextOffset(offset, attribute) == offset + attribute.count * getTypeSize(attribute.type)

\* The body of the loop of setLayoutInternal for slot i and what follows it.
RECURSIVE setLayoutInternalFrom(_, _, _, _, _)
setLayoutInternalFrom(r, l, i, offset, env) ==
    IF ~(i < Len(getAttributes(l))) THEN r
    ELSE LET attribute == getAttributes(l)[i + 1]
             attribType == convertVertexType(attribute.type)
             r1 == RETURN_ON_GL_ERROR(r,
                     Call("glVertexAttribPointer",
                          <<i, attribute.count, attribType, attribute.normalized,
                            getStride(l), offset>>), env)
             r2 == RETURN_ON_GL_ERROR(r1, Call("glEnableVertexAttribArray", <<i>>), env)
         IN setLayoutInternalFrom(r2, l, i + 1, nextOffset(offset, attribute), env)

setLayoutInternal(r, b, l, env) ==
    Return(setLayoutInternalFrom(r, l, 0, 0, env), NoError)

\* A faulty init, which leaves the buffer bound: C4 tells it from the code.
BufferBase_init3_NoUnbind(r, b, size, data, l, env) ==
    LET b1 == [b EXCEPT !.handle = env.name]
        r1 == RETURN_ON_GL_ERROR(r, Call("glGenBuffers", <<env.name>>), env)
        r2 == RETURN_ON_ERROR_CODE(BufferBase_bind(r1, b1, env))
        r3 == RETURN_ON_GL_ERROR(r2, Call("glBufferData", <<b.type, size, data>>), env)
        r4 == RETURN_ON_ERROR_CODE(setLayoutInternal(r3, b1, l, env))
    IN Return(r4, NoError)

\* BufferBase::init(int64_t size, const void* data, const BufferLayout& layout)
BufferBase_init3(r, b, size, data, l, env) ==
    LET b1 == [b EXCEPT !.handle = env.name]
        r1 == RETURN_ON_GL_ERROR(r, Call("glGenBuffers", <<env.name>>), env)
        r2 == RETURN_ON_ERROR_CODE(BufferBase_bind(r1, b1, env))
        r3 == RETURN_ON_GL_ERROR(r2, Call("glBufferData", <<b.type, size, data>>), env)
        r4 == RETURN_ON_ERROR_CODE(setLayoutInternal(r3, b1, l, env))
        r5 == RETURN_ON_ERROR_CODE(BufferBase_unbind(r4, b1, env))
    IN Return(r5, NoError)

\* BufferBase::init(int64_t size, const void* data)
BufferBase_init2(r, b, size, data, env) ==
    LET b1 == [b EXCEPT !.handle = env.name]
        r1 == RETURN_ON_GL_ERROR(r, Call("glGenBuffers", <<env.name>>), env)
        r2 == RETURN_ON_ERROR_CODE(BufferBase_bind(r1, b1, env))
        r3 == RETURN_ON_GL_ERROR(r2, Call("glBufferData", <<b.type, size, data>>), env)
        r4 == RETURN_ON_ERROR_CODE(BufferBase_unbind(r3, b1, env))
    IN Return(r4, NoError)

\* BufferBase::init(int64_t size): return init(size, nullptr);
BufferBase_init1(r, b, size, env) == BufferBase_init2(r, b, size, NullData, env)

\* A faulty upload, which writes at offset 0: C7 tells it from the code.
BufferBase_upload_NoOffset(r, b, offset, size, data, env) ==
    LET r1 == RETURN_ON_ERROR_CODE(BufferBase_bind(r, b, env))
        r2 == RETURN_ON_GL_ERROR(r1, Call("glBufferSubData", <<b.type, 0, size, data>>), env)
        r3 == RETURN_ON_ERROR_CODE(BufferBase_unbind(r2, b, env))
    IN Return(r3, NoError)

\* A faulty upload, which replaces the allocation: C5 tells it from the code.
BufferBase_upload_Whole(r, b, offset, size, data, env) ==
    LET r1 == RETURN_ON_ERROR_CODE(BufferBase_bind(r, b, env))
        r2 == RETURN_ON_GL_ERROR(r1, Call("glBufferData", <<b.type, size, data>>), env)
        r3 == RETURN_ON_ERROR_CODE(BufferBase_unbind(r2, b, env))
    IN Return(r3, NoError)

\* BufferBase::upload(int64_t offset, int64_t size, const void* data)
BufferBase_upload(r, b, offset, size, data, env) ==
    LET r1 == RETURN_ON_ERROR_CODE(BufferBase_bind(r, b, env))
        r2 == RETURN_ON_GL_ERROR(r1,
                Call("glBufferSubData", <<b.type, offset, size, data>>), env)
        r3 == RETURN_ON_ERROR_CODE(BufferBase_unbind(r2, b, env))
    IN Return(r3, NoError)

\* BufferBase::setLayout(const BufferLayout& layout): after bind() it calls
\* setLayout(layout), itself, not setLayoutInternal.  frames is the room left on
\* the call stack.  The function ends without a return statement: were the end
\* reached, the value returned would be indeterminate (env.ub).
RECURSIVE BufferBase_setLayout(_, _, _, _, _)
BufferBase_setLayout(r, b, l, frames, env) ==
    IF frames = 0 THEN Abort(r, "stack overflow")
    ELSE LET r1 == RETURN_ON_ERROR_CODE(BufferBase_bind(r, b, env))
             r2 == RETURN_ON_ERROR_CODE(BufferBase_setLayout(r1, b, l, frames - 1, env))
             r3 == RETURN_ON_ERROR_CODE(BufferBase_unbind(r2, b, env))
         IN Return(r3, env.ub)

\* BufferBase::freeMem(): glDeleteBuffers(1, &handle); the handle is kept.
BufferBase_freeMem(r, b, env) ==
    Return(Issue(r, Call("glDeleteBuffers", <<b.handle>>), env), NoError)

\* BufferBase::map(void*& map, BufferAccessType access): maps what is bound to type.
BufferBase_map(r, b, access, env) ==
    LET glAccess == convertBufferAccesType(access)
        r1 == Issue(r, Call("glMapBuffer", <<b.type, glAccess>>), env)
        ec == checkGLError(r1.gl).ec
    IN Return([Query(r1) EXCEPT !.out = glMapBufferResult(r.gl, b.type, env)], ec)

BufferBase_unmap(r, b, env) ==
    Return(RETURN_ON_GL_ERROR(r, Call("glUnmapBuffer", <<b.type>>), env), NoError)

(***************************************************************************)
(* VAO                                                                     *)
(***************************************************************************)
\* VAO::VAO() : handle(0)
VAO == [handle |-> 0]

VAO_init(r, v, env) ==
    IF v.handle # 0 THEN Abort(r, "assertion failed")
    ELSE Return(RETURN_ON_GL_ERROR(r, Call("glGenVertexArrays", <<env.name>>), env), NoError)

VAO_bind(r, v, env) ==
    IF ~(v.handle # 0) THEN Abort(r, "assertion failed")
    ELSE Return(RETURN_ON_GL_ERROR(r, Call("glBindVertexArray", <<v.handle>>), env), NoError)

VAO_unbind(r, v, env) ==
    Return(RETURN_ON_GL_ERROR(r, Call("glBindVertexArray", <<0>>), env), NoError)

\* A faulty freeMem, which deletes the buffer of the same name as well.
VAO_freeMem_DeletesBuffer(r, v, env) ==
    IF ~(v.handle # 0) THEN Abort(r, "assertion failed")
    ELSE Return(Issue(Issue(r, Call("glDeleteBuffers", <<v.handle>>), env),
                      Call("glDeleteVertexArrays", <<v.handle>>), env), NoError)

\* VAO::freeMem(): assert(handle != 0); glDeleteVertexArrays(1, &handle);
VAO_freeMem(r, v, env) ==
    IF ~(v.handle # 0) THEN Abort(r, "assertion failed")
    ELSE Return(Issue(r, Call("glDeleteVertexArrays", <<v.handle>>), env), NoError)


(***************************************************************************)
(* Texture2D                                                               *)
(***************************************************************************)
\* Texture2D() : texture(0), width(0), height(0), channelsCount(0)
Texture2D == [texture |-> 0, width |-> 0, height |-> 0, channelsCount |-> 0]

\* What stbi_load makes of the file at the path.
NoImage == [loaded |-> FALSE, width |-> 0, height |-> 0, channelsCount |-> 0]
Image(width, height, channelsCount) ==
    [loaded |-> TRUE, width |-> width, height |-> height, channelsCount |-> channelsCount]

\* Texture2D::bind() const
Texture2D_bind(r, t, env) ==
    Return(RETURN_ON_GL_ERROR(r, Call("glBindTexture", <<t.texture>>), env), NoError)

\* A faulty init, which looks at the channel count only after it has generated
\* the texture name: C12 tells it from the code.
Texture2D_init_LateGate(r, t, img, env) ==
    IF ~img.loaded
    THEN Return(r, ErrorCode("failure", "Failed to load texture: %s", <<"path">>))
    ELSE
    LET r1 == RETURN_ON_GL_ERROR(r, Call("glGenTextures", <<env.name>>), env)
    IN Return(r1, ErrorCode("failure", "Unsupported data format. Channels count is: %d",
                            <<img.channelsCount>>))

\* Texture2D::init(path, format, wrap, filter); the new name is env.name.
Texture2D_init(r, t, img, env) ==
    IF ~img.loaded
    THEN Return(r, ErrorCode("failure", "Failed to load texture: %s", <<"path">>))
    ELSE IF img.channelsCount # 3
    THEN Return(r, ErrorCode("failure", "Unsupported data format. Channels count is: %d",
                             <<img.channelsCount>>))
    ELSE
    LET r1 == RETURN_ON_GL_ERROR(r, Call("glGenTextures", <<env.name>>), env)
        r2 == RETURN_ON_ERROR_CODE(
                  Texture2D_bind(r1, [t EXCEPT !.texture = env.name], env))
        r3 == RETURN_ON_GL_ERROR(r2, Call("glTexParameteri", <<"GL_TEXTURE_WRAP_S">>), env)
        r4 == RETURN_ON_GL_ERROR(r3, Call("glTexParameteri", <<"GL_TEXTURE_WRAP_T">>), env)
        r5 == RETURN_ON_GL_ERROR(r4, Call("glTexParameteri", <<"GL_TEXTURE_MIN_FILTER">>), env)
        r6 == RETURN_ON_GL_ERROR(r5, Call("glTexParameteri", <<"GL_TEXTURE_MAG_FILTER">>), env)
        r7 == RETURN_ON_GL_ERROR(r6, Call("glTexImage2D", <<img.width, img.height>>), env)
    IN Return(r7, NoError)

MipMapFilters == {"None", "Nearest", "Linear"}

\* Texture2D::init(path, format, wrapU, wrapV, minFilter, maxFilter, mipMapFilter):
\* the four glTexParameteri calls are not followed by a query of the error flag.
Texture2D_initExt(r, t, img, mipMapFilter, env) ==
    IF ~img.loaded
    THEN Return(r, ErrorCode("failure", "Failed to load texture: %s", <<"path">>))
    ELSE IF img.channelsCount # 3
    THEN Return(r, ErrorCode("failure", "Unsupported data format. Channels count is: %d",
                             <<img.channelsCount>>))
    ELSE
    LET r1 == RETURN_ON_GL_ERROR(r, Call("glGenTextures", <<env.name>>), env)
        r2 == RETURN_ON_ERROR_CODE(
                  Texture2D_bind(r1, [t EXCEPT !.texture = env.name], env))
        r3 == Issue(r2, Call("glTexParameteri", <<"GL_TEXTURE_WRAP_S">>), env)
        r4 == Issue(r3, Call("glTexParameteri", <<"GL_TEXTURE_WRAP_T">>), env)
        r5 == Issue(r4, Call("glTexParameteri", <<"GL_TEXTURE_MIN_FILTER">>), env)
        r6 == Issue(r5, Call("glTexParameteri", <<"GL_TEXTURE_MAG_FILTER">>), env)
        r7 == RETURN_ON_GL_ERROR(r6, Call("glTexImage2D", <<img.width, img.height>>), env)
        r8 == IF mipMapFilter # "None"
              THEN RETURN_ON_GL_ERROR(r7, Call("glGenerateMipmap", <<>>), env)
              ELSE r7
    IN Return(r8, NoError)

\* The fields of the texture after init: stbi_load fills in the image's
\* measures, glGenTextures the name.
Texture2D_afterInit(t, img, env) ==
    IF ~img.loaded THEN t
    ELSE [texture |-> IF img.channelsCount # 3 THEN t.texture ELSE env.name,
          width |-> img.width, height |-> img.height,
          channelsCount |-> img.channelsCount]

\* Texture2D::freeMem(): glDeleteTextures(1, &texture); assert(no error); texture = 0;
Texture2D_freeMem(r, t, env) ==
    Return(ASSERT_NO_GL_ERROR(r, Call("glDeleteTextures", <<t.texture>>), env), NoError)

(***************************************************************************)
(* Strings: std::string positions count from 0, npos is what                *)
(* std::string::npos becomes once it is stored in an int.                   *)
(***************************************************************************)
npos == 0 - 1

SetMin(S) == CHOOSE n \in S : \A m \in S : n <= m

\* str.substr(pos, n) for 0 <= pos <= size; an n that is negative as an int is
\* a huge size_t, and the substring then runs to the end of the string.
substr(str, pos, n) ==
    LET rest == Len(str) - pos
        len == IF n < 0 \/ n > rest THEN rest ELSE n
    IN SubSeq(str, pos + 1, pos + len)

\* str.find_first_of(chars, pos): the first position at or after pos that holds
\* any one of the characters of chars.
find_first_of(str, chars, pos) ==
    LET hits == {i \in pos..(Len(str) - 1) : str[i + 1] \in Range(chars)}
    IN IF hits = {} THEN npos ELSE SetMin(hits)

\* str.find(pat, pos, Len(pat)): the first position at or after pos where pat
\* occurs.
find(str, pat, pos) ==
    LET hits == {i \in pos..(Len(str) - Len(pat)) : substr(str, i, Len(pat)) = pat}
    IN IF hits = {} THEN npos ELSE SetMin(hits)

isblank(c) == c \in {" ", "\t"}

\* std::strncmp(lit, str.c_str() + from, Len(lit)) == 0, for from <= size: the
\* terminating NUL of c_str() differs from every character of lit.
strncmpEq(lit, str, from) ==
    /\ from + Len(lit) <= Len(str)
    /\ substr(str, from, Len(lit)) = lit

(***************************************************************************)
(* Shader                                                                  *)
(***************************************************************************)
ShaderTypes == {"Vertex", "Fragment"}

convertShaderType(type) ==
    CASE type = "Vertex" -> "GL_VERTEX_SHADER"
      [] type = "Fragment" -> "GL_FRAGMENT_SHADER"

\* Shader::checkShaderCompilationError()
checkShaderCompilationError(r, handle, env) ==
    LET r1 == RETURN_ON_GL_ERROR(r, Call("glGetShaderiv", <<handle>>), env)
        success == handle \in r1.gl.shaderNames /\ r1.gl.shader[handle].compiled
    IN IF Stopped(r1) \/ success THEN Return(r1, NoError)
       ELSE Return(RETURN_ON_GL_ERROR(r1, Call("glGetShaderInfoLog", <<handle>>), env),
                   ErrorCode("-1", "Error in shader code.\n%s", <<"infoLog">>))

\* A faulty loadFromSource: a shader that already holds a handle keeps it.
Shader_loadFromSource_KeepFirst(r, source, type, env) ==
    IF Stopped(r) THEN r
    ELSE
    LET n == NewObjName(r.gl)
        r1 == RETURN_ON_GL_ERROR(r, Call("glCreateShader", <<convertShaderType(type), n>>), env)
        r1h == [r1 EXCEPT !.out = [t \in (DOMAIN r.out) \cup {type} |->
                                       IF t \in DOMAIN r.out THEN r.out[t] ELSE n]]
        r2 == RETURN_ON_GL_ERROR(r1h, Call("glShaderSource", <<n, source>>), env)
        r3 == RETURN_ON_GL_ERROR(r2, Call("glCompileShader", <<n>>), env)
        r4 == RETURN_ON_ERROR_CODE(checkShaderCompilationError(r3, n, env))
    IN Return(r4, NoError)

\* Shader::loadFromSource(source, length, type) on the shader that a pipeline
\* keeps for the type.  The pipeline's map (type -> handle) travels in r.out:
\* handle = glCreateShader(...) overwrites the handle the shader held.
Shader_loadFromSource(r, source, type, env) ==
    IF Stopped(r) THEN r
    ELSE
    LET n == NewObjName(r.gl)
        r1 == RETURN_ON_GL_ERROR(r, Call("glCreateShader", <<convertShaderType(type), n>>), env)
        r1h == [r1 EXCEPT !.out = [t \in (DOMAIN r.out) \cup {type} |->
                                       IF t = type THEN n ELSE r.out[t]]]
        r2 == RETURN_ON_GL_ERROR(r1h, Call("glShaderSource", <<n, source>>), env)
        r3 == RETURN_ON_GL_ERROR(r2, Call("glCompileShader", <<n>>), env)
        r4 == RETURN_ON_ERROR_CODE(checkShaderCompilationError(r3, n, env))
    IN Return(r4, NoError)

(***************************************************************************)
(* Pipeline                                                                *)
(***************************************************************************)
\* "#shader"; sizeof("#shader") counts the terminating NUL as well.
Directive == <<"#", "s", "h", "a", "d", "e", "r">>
SizeofDirective == Len(Directive) + 1
FragmentToken == <<"f", "r", "a", "g", "m", "e", "n", "t">>
VertexToken == <<"v", "e", "r", "t", "e", "x">>

\* A file on disk: fopen fails on a missing one.
NoFile == [exists |-> FALSE, bytes |-> <<>>]
File(bytes) == [exists |-> TRUE, bytes |-> bytes]

\* while (std::isblank(joinedShader[currentPos])) currentPos++;
\* joinedShader[size()] is the NUL, which is not blank.
RECURSIVE SkipBlank(_, _)
SkipBlank(str, pos) ==
    IF pos < Len(str) /\ isblank(str[pos + 1]) THEN SkipBlank(str, pos + 1) ELSE pos

\* The stage kind the directive at currentPos names.  A directive that starts
\* less than sizeof("#shader") characters before the end of the string makes
\* strncmp read past the string's buffer: env.stray is what it then finds.
DirectiveType(str, currentPos, env) ==
    LET shaderDirective == currentPos + SizeofDirective
    IN IF shaderDirective > Len(str) THEN env.stray
       ELSE IF strncmpEq(FragmentToken, str, shaderDirective) THEN "Fragment"
       ELSE IF strncmpEq(VertexToken, str, shaderDirective) THEN "Vertex"
       ELSE "unknown"

\* The position the iteration that starts at pos leaves in currentPos:
\* currentPos = shaderEnd.
IterationEnd(str, pos) ==
    LET currentPos == SkipBlank(str, pos)
        shaderStart == find(str, <<"\n">>, currentPos) + 1
        nextShaderStart == find(str, Directive, shaderStart)
    IN IF nextShaderStart = npos THEN Len(str) ELSE nextShaderStart

\* The while loop of Pipeline::init from the position pos on; it is cut after
\* fuel iterations.
RECURSIVE PipelineLoop(_, _, _, _, _)
PipelineLoop(r, str, pos, fuel, env) ==
    IF Stopped(r) \/ ~(pos >= 0 /\ pos < Len(str)) THEN r
    ELSE IF fuel = 0 THEN Abort(r, "no progress")
    ELSE
    LET currentPos == SkipBlank(str, pos)
        shaderStart == find(str, <<"\n">>, currentPos) + 1
        nextShaderStart == find(str, Directive, shaderStart)
        shaderEnd == IF nextShaderStart = npos THEN Len(str) ELSE nextShaderStart
        shaderSize == shaderEnd - shaderStart
        shaderType == DirectiveType(str, currentPos, env)
        shaderTypeLen == find(str, <<"\n">>, shaderStart) - currentPos
        shaderTypeStr == substr(str, currentPos, shaderTypeLen)
    IN IF shaderType \notin ShaderTypes
       THEN Return(r, ErrorCode("failure", "Unknown shader type: %s", <<shaderTypeStr>>))
       ELSE PipelineLoop(
                RETURN_ON_ERROR_CODE(
                    Shader_loadFromSource(r, substr(str, shaderStart, shaderSize),
                                          shaderType, env)),
                str, shaderEnd, fuel - 1, env)

\* Pipeline::init(path); shaders is the pipeline's map before the call.
Pipeline_init(r, shadersMap, f, fuel, env) ==
    IF ~f.exists
    THEN Return(r, ErrorCode("errno", "Cannot open file %s path: %s", <<"path", "strerror">>))
    ELSE Return(PipelineLoop([r EXCEPT !.out = shadersMap], f.bytes,
                             find_first_of(f.bytes, Directive, 0), fuel, env),
                NoError)

(***************************************************************************)
(* Program                                                                 *)
(***************************************************************************)
\* Program::Program() : handle(0)
Program == [handle |-> 0]

\* The order in which a range-for visits the pipeline's stages.
StageOrder(shadersMap) ==
    SelectSeq(<<"Vertex", "Fragment">>, LAMBDA t : t \in DOMAIN shadersMap)

\* Program::checkProgramLinkErrors() const
checkProgramLinkErrors(r, handle, env) ==
    IF Stopped(r) THEN r
    ELSE
    LET r1 == Issue(r, Call("glGetProgramiv", <<handle>>), env)
        success == r1.gl.program[handle].linked
    IN IF success THEN Return(r1, NoError)
       ELSE Return(Issue(r1, Call("glGetProgramInfoLog", <<handle>>), env),
                   ErrorCode("-1", "Error while linking shaders code.\n%s", <<"infoLog">>))

\* for (auto& it : pipeline) RETURN_ON_GL_ERROR(glAttachShader(handle, h));
RECURSIVE AttachAll(_, _, _, _, _)
AttachAll(r, handle, shadersMap, order, env) ==
    IF order = <<>> THEN r
    ELSE AttachAll(RETURN_ON_GL_ERROR(r, Call("glAttachShader",
                                              <<handle, shadersMap[Head(order)]>>), env),
                   handle, shadersMap, Tail(order), env)

\* for (auto& it : pipeline) { glDetachShader(handle, h); assert(no error); }
RECURSIVE DetachAll(_, _, _, _, _)
DetachAll(r, handle, shadersMap, order, env) ==
    IF order = <<>> THEN r
    ELSE DetachAll(ASSERT_NO_GL_ERROR(r, Call("glDetachShader",
                                              <<handle, shadersMap[Head(order)]>>), env),
                   handle, shadersMap, Tail(order), env)

\* A faulty init, which detaches the stages before it looks at the link status:
\* C10 tells it from the code.
Program_init_DetachFirst(r, shadersMap, env) ==
    LET n == NewObjName(r.gl)
        order == StageOrder(shadersMap)
        r1 == RETURN_ON_GL_ERROR([r EXCEPT !.out = n], Call("glCreateProgram", <<n>>), env)
        r2 == AttachAll(r1, n, shadersMap, order, env)
        r3 == RETURN_ON_GL_ERROR(r2, Call("glLinkProgram", <<n>>), env)
        r4 == DetachAll(r3, n, shadersMap, order, env)
        r5 == RETURN_ON_ERROR_CODE(checkProgramLinkErrors(r4, n, env))
    IN Return(r5, NoError)

\* A faulty init, which leaves the stages attached after a successful link:
\* C11 tells it from the code.
Program_init_NoDetach(r, shadersMap, env) ==
    LET n == NewObjName(r.gl)
        order == StageOrder(shadersMap)
        r1 == RETURN_ON_GL_ERROR([r EXCEPT !.out = n], Call("glCreateProgram", <<n>>), env)
        r2 == AttachAll(r1, n, shadersMap, order, env)
        r3 == RETURN_ON_GL_ERROR(r2, Call("glLinkProgram", <<n>>), env)
        r4 == RETURN_ON_ERROR_CODE(checkProgramLinkErrors(r3, n, env))
    IN Return(r4, NoError)

\* Program::init(pipeline); r.out is the handle the program holds afterwards.
Program_init(r, shadersMap, env) ==
    LET n == NewObjName(r.gl)
        order == StageOrder(shadersMap)
        r1 == RETURN_ON_GL_ERROR([r EXCEPT !.out = n], Call("glCreateProgram", <<n>>), env)
        r2 == AttachAll(r1, n, shadersMap, order, env)
        r3 == RETURN_ON_GL_ERROR(r2, Call("glLinkProgram", <<n>>), env)
        r4 == RETURN_ON_ERROR_CODE(checkProgramLinkErrors(r3, n, env))
        r5 == DetachAll(r4, n, shadersMap, order, env)
    IN Return(r5, NoError)

\* Program::bind(): glUseProgram(handle); return checkGLError();
Program_bind(r, p, env) ==
    LET r1 == Issue(r, Call("glUseProgram", <<p.handle>>), env)
    IN Return(Query(r1), checkGLError(r1.gl).ec)

\* Program::unbind(): glUseProgram(0);
Program_unbind(r, p, env) ==
    Return(Issue(r, Call("glUseProgram", <<0>>), env), NoError)

\* A faulty setUniform, which makes its program current first.
Program_setUniform_AutoBind(r, p, name, value, env) ==
    LET location == glGetUniformLocationResult(r.gl, p.handle, name)
        r0 == Issue(r, Call("glUseProgram", <<p.handle>>), env)
        r1 == Issue(r0, Call("glGetUniformLocation", <<p.handle, name>>), env)
        r2 == Issue(r1, Call("glUniform1f", <<location, value>>), env)
    IN Return([Query(r2) EXCEPT !.out = location], checkGLError(r2.gl).ec)

\* A faulty setUniform, which returns without reading the error flag.
Program_setUniform_NoQuery(r, p, name, value, env) ==
    LET location == glGetUniformLocationResult(r.gl, p.handle, name)
        r1 == Issue(r, Call("glGetUniformLocation", <<p.handle, name>>), env)
        r2 == Issue(r1, Call("glUniform1f", <<location, value>>), env)
    IN Return([r2 EXCEPT !.out = location], NoError)

\* Program::setUniform(name, value): the float overload; the vec3 and mat4
\* overloads differ in the glUniform function only.  r.out is the location.
Program_setUniform(r, p, name, value, env) ==
    LET location == glGetUniformLocationResult(r.gl, p.handle, name)
        r1 == Issue(r, Call("glGetUniformLocation", <<p.handle, name>>), env)
        r2 == Issue(r1, Call("glUniform1f", <<location, value>>), env)
    IN Return([Query(r2) EXCEPT !.out = location], checkGLError(r2.gl).ec)

\* Program::freeMem(): if (handle) { glDeleteProgram(handle); assert(no error); handle = 0; }
Program_freeMem(r, p, env) ==
    IF p.handle = 0 THEN Return(r, NoError)
    ELSE Return(ASSERT_NO_GL_ERROR(r, Call("glDeleteProgram", <<p.handle>>), env), NoError)

(***************************************************************************)
(* State shared by the specifications.                                     *)
(***************************************************************************)
BufIds == {1, 2}
VaoIds == {1}

\* Byte strings of exactly n bytes.
RECURSIVE ByteSeqs(_)
ByteSeqs(n) ==
    IF n <= 0 THEN {<<>>} ELSE {Append(s, b) : s \in ByteSeqs(n - 1), b \in Bytes}

Indeterminate == ErrorCode("indeterminate", "", <<>>)

NoOp == [op |-> "", obj |-> 0, handle |-> 0, size |-> 0, offset |-> 0,
         data |-> NullData, layout |-> EmptyLayout, access |-> "",
         oom |-> FALSE, rejects |-> {}, link |-> TRUE, stages |-> <<>>,
         img |-> NoImage, mip |-> "None", ret |-> NoError, out |-> 0]

NoWrite == [obj |-> 0, offset |-> 0, data |-> <<>>, stage |-> "none"]

\* The layer's objects as constructed, the device untouched.
InitObjects ==
    /\ layout = <<>> /\ stride = 0 /\ history = <<>>
    /\ gl = GLInit
    /\ vaos = [v \in VaoIds |-> VAO]
    /\ texs = <<>> /\ progs = <<>> /\ shaders = <<>> /\ file = <<>>
    /\ last = NoOp /\ calls = <<>> /\ wr = NoWrite /\ crashed = ""

\* The operation that ran leaves its result r behind.
Ran(r, op) ==
    /\ gl' = r.gl
    /\ calls' = r.calls
    /\ crashed' = r.crashed
    /\ last' = [op EXCEPT !.ret = r.ret, !.out = r.out]

Succeeded(r) == r.crashed = "" /\ ~hasError(r.ret)

(***************************************************************************)
(* SpecLayout: one BufferLayout object and the calls made on it.           *)
(***************************************************************************)
InitLayout ==
    /\ InitObjects
    /\ bufs = [i \in BufIds |-> BufferBase("Vertex")]

AddAttribute ==
    /\ Len(history) < MaxAttrs
    /\ \E type \in VertexTypes, count \in 1..4, normalized \in BOOLEAN :
         LET l == addAttribute([layout |-> layout, stride |-> stride], type, count, normalized)
         IN /\ layout' = l.layout
            /\ stride' = l.stride
            /\ history' = Append(history, AttributeLayout(count, type, normalized))
    /\ UNCHANGED <<gl, bufs, vaos, texs, progs, shaders, file, last, calls, wr, crashed>>

NextLayout == AddAttribute

SpecLayout == InitLayout /\ [][NextLayout]_vars

\* C1: after any sequence of addAttribute calls on a default-constructed
\* BufferLayout, getStride() is the sum of count * byteSize(type) over the calls
\* made so far, and getAttributes() lists exactly those attributes in call order.
C1_StrideAccumulation ==
    LET l == [layout |-> layout, stride |-> stride] IN
    /\ getStride(l) =
         SumSeq([i \in 1..Len(history) |-> history[i].count * 4])
    /\ getAttributes(l) = history

\* Two calls, one Int and one Float attribute, have been made.
C1_Witness ==
    /\ Len(history) = 2
    /\ history[1].type = "Int" /\ history[2].type = "Float"
    /\ history[1].count = 3 /\ history[2].count = 2
    /\ stride = 20


(***************************************************************************)
(* Operations on the buffers and the VAO.  Each action is one call of the  *)
(* layer; ids are the objects it may be called on, the other parameters    *)
(* the arguments a caller may pass.                                       *)
(***************************************************************************)
\* The attributes a caller hands to addAttribute: type, count, normalized.
AttrChoices == {<<"Float", 3, FALSE>>, <<"Int", 1, TRUE>>}

\* The layouts a caller can build with at most n addAttribute calls.
RECURSIVE LayoutsUpTo(_)
LayoutsUpTo(n) ==
    IF n = 0 THEN {EmptyLayout}
    ELSE LayoutsUpTo(n - 1) \cup
         {addAttribute(l, a[1], a[2], a[3]) : l \in LayoutsUpTo(n - 1), a \in AttrChoices}


\* The device decides nothing.
Env0 == [name |-> 0, oom |-> FALSE, junk |-> <<>>, ub |-> NoError,
         rejects |-> {}, link |-> TRUE, stray |-> "unknown", strict |-> FALSE]

OtherVars == <<layout, stride, history, texs, progs, shaders, file>>

\* Any operation but a write, a bind or a map ends the write-then-read episode.
Forget == wr' = NoWrite

Written(r, i, offset, bytes) ==
    wr' = IF Succeeded(r)
          THEN [obj |-> i, offset |-> offset, data |-> bytes, stage |-> "written"]
          ELSE NoWrite

VaoInit(names) ==
    /\ crashed = ""
    /\ \E v \in VaoIds, n \in names \ gl.vaoNames :
         LET env == [Env0 EXCEPT !.name = n]
             r == VAO_init(Start(gl), vaos[v], env)
         IN /\ Ran(r, [NoOp EXCEPT !.op = "VAO::init", !.obj = v, !.handle = vaos[v].handle])
            /\ vaos' = IF r.crashed = "" THEN [vaos EXCEPT ![v].handle = n] ELSE vaos
    /\ Forget
    /\ UNCHANGED <<bufs, OtherVars>>

VaoBind ==
    /\ crashed = ""
    /\ \E v \in VaoIds :
         LET r == VAO_bind(Start(gl), vaos[v], Env0)
         IN Ran(r, [NoOp EXCEPT !.op = "VAO::bind", !.obj = v, !.handle = vaos[v].handle])
    /\ Forget
    /\ UNCHANGED <<bufs, vaos, OtherVars>>

VaoUnbind ==
    /\ crashed = ""
    /\ \E v \in VaoIds :
         LET r == VAO_unbind(Start(gl), vaos[v], Env0)
         IN Ran(r, [NoOp EXCEPT !.op = "VAO::unbind", !.obj = v, !.handle = vaos[v].handle])
    /\ Forget
    /\ UNCHANGED <<bufs, vaos, OtherVars>>

BufInit1(ids, names, sizes) ==
    /\ crashed = ""
    /\ \E i \in ids, n \in names \ gl.bufNames, size \in sizes :
       \E junk \in ByteSeqs(size) :
         LET env == [Env0 EXCEPT !.name = n, !.junk = junk]
             r == BufferBase_init1(Start(gl), bufs[i], size, env)
         IN /\ Ran(r, [NoOp EXCEPT !.op = "init1", !.obj = i, !.handle = n, !.size = size])
            /\ bufs' = [bufs EXCEPT ![i].handle = n]
    /\ Forget
    /\ UNCHANGED <<vaos, OtherVars>>

BufInit2(ids, names, sizes) ==
    /\ crashed = ""
    /\ \E i \in ids, n \in names \ gl.bufNames, size \in sizes :
       \E bytes \in ByteSeqs(size) :
         LET env == [Env0 EXCEPT !.name = n]
             r == BufferBase_init2(Start(gl), bufs[i], size, Data(bytes), env)
         IN /\ Ran(r, [NoOp EXCEPT !.op = "init2", !.obj = i, !.handle = n,
                                   !.size = size, !.data = Data(bytes)])
            /\ bufs' = [bufs EXCEPT ![i].handle = n]
            /\ Written(r, i, 0, bytes)
    /\ UNCHANGED <<vaos, OtherVars>>

BufInit3(ids, names, sizes, layouts) ==
    /\ crashed = ""
    /\ \E i \in ids, n \in names \ gl.bufNames, size \in sizes :
       \E bytes \in ByteSeqs(size), l \in layouts :
         LET env == [Env0 EXCEPT !.name = n]
             r == BufferBase_init3(Start(gl), bufs[i], size, Data(bytes), l, env)
         IN /\ Ran(r, [NoOp EXCEPT !.op = "init3", !.obj = i, !.handle = n,
                                   !.size = size, !.data = Data(bytes), !.layout = l])
            /\ bufs' = [bufs EXCEPT ![i].handle = n]
            /\ Written(r, i, 0, bytes)
    /\ UNCHANGED <<vaos, OtherVars>>

BufUpload(ids, offsets, sizes) ==
    /\ crashed = ""
    /\ \E i \in ids, offset \in offsets, size \in sizes :
       \E bytes \in ByteSeqs(size) :
         LET r == BufferBase_upload(Start(gl), bufs[i], offset, size, Data(bytes), Env0)
         IN /\ Ran(r, [NoOp EXCEPT !.op = "upload", !.obj = i, !.handle = bufs[i].handle,
                                   !.size = size, !.offset = offset, !.data = Data(bytes)])
            /\ Written(r, i, offset, bytes)
    /\ UNCHANGED <<bufs, vaos, OtherVars>>

BufSetLayout(ids, layouts) ==
    /\ crashed = ""
    /\ \E i \in ids, l \in layouts, ub \in {NoError, Indeterminate} :
         LET env == [Env0 EXCEPT !.ub = ub]
             r == BufferBase_setLayout(Start(gl), bufs[i], l, MaxStack, env)
         IN Ran(r, [NoOp EXCEPT !.op = "setLayout", !.obj = i, !.handle = bufs[i].handle,
                                !.layout = l])
    /\ Forget
    /\ UNCHANGED <<bufs, vaos, OtherVars>>

BufBind(ids) ==
    /\ crashed = ""
    /\ \E i \in ids :
         LET r == BufferBase_bind(Start(gl), bufs[i], Env0)
         IN /\ Ran(r, [NoOp EXCEPT !.op = "bind", !.obj = i, !.handle = bufs[i].handle])
            /\ wr' = IF Succeeded(r) /\ wr.obj = i /\ wr.stage = "written"
                     THEN [wr EXCEPT !.stage = "bound"] ELSE NoWrite
    /\ UNCHANGED <<bufs, vaos, OtherVars>>

BufUnbind(ids) ==
    /\ crashed = ""
    /\ \E i \in ids :
         LET r == BufferBase_unbind(Start(gl), bufs[i], Env0)
         IN Ran(r, [NoOp EXCEPT !.op = "unbind", !.obj = i, !.handle = bufs[i].handle])
    /\ Forget
    /\ UNCHANGED <<bufs, vaos, OtherVars>>

BufMap(ids, accesses) ==
    /\ crashed = ""
    /\ \E i \in ids, access \in accesses, oom \in BOOLEAN :
         LET env == [Env0 EXCEPT !.oom = oom]
             r == BufferBase_map(Start(gl), bufs[i], access, env)
         IN /\ Ran(r, [NoOp EXCEPT !.op = "map", !.obj = i, !.handle = bufs[i].handle,
                                   !.access = access, !.oom = oom])
            /\ wr' = IF wr.obj = i /\ wr.stage = "written"
                        THEN [wr EXCEPT !.stage = "mapped after write"]
                     ELSE IF wr.obj = i /\ wr.stage = "bound"
                        THEN [wr EXCEPT !.stage = "mapped after bind"]
                     ELSE NoWrite
    /\ UNCHANGED <<bufs, vaos, OtherVars>>

BufUnmap(ids) ==
    /\ crashed = ""
    /\ \E i \in ids :
         LET r == BufferBase_unmap(Start(gl), bufs[i], Env0)
         IN Ran(r, [NoOp EXCEPT !.op = "unmap", !.obj = i, !.handle = bufs[i].handle])
    /\ Forget
    /\ UNCHANGED <<bufs, vaos, OtherVars>>

BufFreeMem(ids) ==
    /\ crashed = ""
    /\ \E i \in ids :
         LET r == BufferBase_freeMem(Start(gl), bufs[i], Env0)
         IN Ran(r, [NoOp EXCEPT !.op = "freeMem", !.obj = i, !.handle = bufs[i].handle])
    /\ Forget
    /\ UNCHANGED <<bufs, vaos, OtherVars>>

(***************************************************************************)
(* SpecData: the data store of buffer 1, which the device names 1.  The    *)
(* VAO has been initialised and bound (as Line::init does before it        *)
(* initialises its buffer), and buffer 2, of the same type, has been       *)
(* initialised with one byte; buffer 2 is only bound and unbound.  Layouts *)
(* have at most one attribute.                                             *)
(***************************************************************************)
DataLayouts == LayoutsUpTo(1)
DataSizes == (0 - 1)..MaxSize

InitData ==
    /\ layout = <<>> /\ stride = 0 /\ history = <<>>
    /\ gl = [GLInit EXCEPT !.vaoNames = {1}, !.vaoBound = 1,
                           !.bufNames = {2}, !.buffers[2].store = <<1>>]
    /\ vaos = [v \in VaoIds |-> [handle |-> 1]]
    /\ bufs = [i \in BufIds |-> [BufferBase("Vertex") EXCEPT !.handle = IF i = 2 THEN 2 ELSE 0]]
    /\ texs = <<>> /\ progs = <<>> /\ shaders = <<>> /\ file = <<>>
    /\ last = NoOp /\ calls = <<>> /\ wr = NoWrite /\ crashed = ""

NextData ==
    \/ BufInit1({1}, {1}, DataSizes)
    \/ BufInit2({1}, {1}, DataSizes)
    \/ BufInit3({1}, {1}, DataSizes, DataLayouts)
    \/ BufUpload({1}, 0..MaxSize, 0..MaxSize)
    \/ BufBind(BufIds) \/ BufUnbind(BufIds)
    \/ BufMap({1}, AccessTypes) \/ BufUnmap({1})
    \/ BufFreeMem({1})

SpecData == InitData /\ [][NextData]_vars

(***************************************************************************)
(* SpecAttr: the vertex attributes a layout configures.  One buffer, which *)
(* holds no bytes, and the VAO.                                            *)
(***************************************************************************)
Layouts == LayoutsUpTo(MaxLayoutLen)

InitAttr ==
    /\ InitObjects
    /\ bufs = [i \in BufIds |-> BufferBase("Vertex")]

NextAttr ==
    \/ VaoInit({1}) \/ VaoBind \/ VaoUnbind
    \/ BufInit3({1}, {1}, {0}, Layouts)
    \/ BufSetLayout({1}, Layouts)
    \/ BufBind({1}) \/ BufUnbind({1}) \/ BufFreeMem({1})

SpecAttr == InitAttr /\ [][NextAttr]_vars


(***************************************************************************)
(* Properties of the buffers.                                              *)
(***************************************************************************)
Ok == crashed = "" /\ ~hasError(last.ret)

\* The bytes before position i of a layout, tightly packed: 4 bytes a component.
PackedOffset(attrs, i) == SumSeq([k \in 1..(i - 1) |-> attrs[k].count * 4])

\* C2: when a layout with N attributes is applied to a buffer, the attribute
\* added i-th is configured at device slot i (counting from 0) and its byte
\* offset is the sum of count * byteSize(type) over the attributes before it.
C2_LayoutOffsets ==
    (last.op = "init3" /\ Ok) =>
        LET attrs == last.layout.layout IN
        \A i \in 1..Len(attrs) :
            LET a == gl.attribs[gl.vaoBound][i - 1] IN
            /\ a.enabled
            /\ a.count = attrs[i].count
            /\ a.type = convertVertexType(attrs[i].type)
            /\ a.buffer = last.handle
            /\ a.offset = PackedOffset(attrs, i)

\* A layout of a Float x 3 and then an Int x 1 attribute has been applied: the
\* second attribute sits at slot 1, 12 bytes in.
C2_Witness ==
    /\ last.op = "init3" /\ Ok
    /\ Len(last.layout.layout) >= 2
    /\ last.layout.layout[1].count = 3
    /\ gl.vaoBound # 0
    /\ gl.attribs[gl.vaoBound][1].offset = 12

\* C3: setLayout(layout) on an initialised buffer terminates and returns a
\* result; on success the slots 0..N-1 are enabled and the buffer is unbound.
C3_SetLayoutReturns ==
    (last.op = "setLayout" /\ last.handle \in gl.bufNames) =>
        /\ crashed = ""
        /\ ~hasError(last.ret) =>
             /\ gl.bound[bufs[last.obj].type] = 0
             /\ \A i \in 1..Len(last.layout.layout) :
                  gl.attribs[gl.vaoBound][i - 1].enabled

\* The position of the allocation call among the calls of the last operation
\* (0 if there is none) and the bind in force at a position.
AllocAt == IF \E k \in 1..Len(calls) : calls[k].op = "glBufferData"
           THEN CHOOSE k \in 1..Len(calls) : calls[k].op = "glBufferData"
           ELSE 0

RECURSIVE BoundBefore(_)
BoundBefore(k) ==
    IF k <= 1 THEN 0
    ELSE IF calls[k - 1].op = "glBindBuffer" THEN calls[k - 1].args[2]
    ELSE BoundBefore(k - 1)

C5_UploadFrame ==
    [][(last'.op = "upload" /\ crashed' = "" /\ ~hasError(last'.ret)) =>
          LET h == last'.handle
              before == gl.buffers[h].store
              after == gl'.buffers[h].store
          IN /\ Len(after) = Len(before)
             /\ \A k \in 1..Len(before) :
                  (k <= last'.offset \/ k > last'.offset + last'.size) => after[k] = before[k]
             /\ \A n \in Names \ {h} : gl'.buffers[n] = gl.buffers[n]
             /\ gl'.bufNames = gl.bufNames
             /\ gl'.bound[bufs[last'.obj].type] = 0]_vars

\* One byte has been uploaded at offset 1 of a two-byte allocation.
C5_Witness ==
    /\ last.op = "upload" /\ Ok
    /\ last.offset = 1 /\ last.size = 1
    /\ Len(gl.buffers[last.handle].store) = 2
    /\ gl.buffers[last.handle].store[1] # gl.buffers[last.handle].store[2]

\* What a successful map exposes agrees with the last write.
ExposesWritten ==
    /\ last.out # 0
    /\ wr.offset + Len(wr.data) <= Len(gl.buffers[last.out].store)
    /\ SubSeq(gl.buffers[last.out].store, wr.offset + 1, wr.offset + Len(wr.data)) = wr.data

GeometryToken == <<"g", "e", "o", "m", "e", "t", "r", "y">>
KnownTokens == {VertexToken, FragmentToken}
Tokens == KnownTokens \cup {GeometryToken, VertexToken \o <<"X">>, FragmentToken \o <<"s">>}

\* "#shader <token>\n"
MarkerLine(token) == Directive \o <<" ">> \o token \o <<"\n">>

\* Texts with no occurrence of the directive, and one where it occurs in the
\* middle of a line.
PlainTexts == {<<>>, <<"a", "\n">>, <<"b", ";", "\n", "c", "\n">>}
Texts == PlainTexts \cup {<<"x", " ">> \o Directive \o <<" ", "y", "\n">>}

OneStage(token, A) == MarkerLine(token) \o A
TwoStages(token1, A, token2, B) == MarkerLine(token1) \o A \o MarkerLine(token2) \o B

Files ==
    {File(OneStage(t, A)) : t \in Tokens, A \in Texts}
    \cup {File(TwoStages(t1, A, t2, B)) : t1 \in Tokens, A \in Texts, t2 \in Tokens, B \in Texts}

ProgIds == {1}
StrayTypes == ShaderTypes \cup {"unknown"}

InitPipeline ==
    /\ layout = <<>> /\ stride = 0 /\ history = <<>>
    /\ gl = GLInit
    /\ bufs = [i \in BufIds |-> BufferBase("Vertex")]
    /\ vaos = [v \in VaoIds |-> VAO]
    /\ texs = <<>>
    /\ progs = [p \in ProgIds |-> Program]
    /\ shaders = <<>>
    /\ file \in Files
    /\ last = NoOp /\ calls = <<>> /\ wr = NoWrite /\ crashed = ""

\* pipeline.init(path), on a pipeline that holds no stage yet.
PipelineInit ==
    /\ crashed = ""
    /\ DOMAIN shaders = {}
    /\ \E rejects \in SUBSET ShaderTypes, stray \in StrayTypes :
         LET env == [Env0 EXCEPT !.rejects = {convertShaderType(t) : t \in rejects},
                                 !.stray = stray]
             r == Pipeline_init(Start(gl), shaders, file, MaxLoop, env)
         IN /\ Ran(r, [NoOp EXCEPT !.op = "Pipeline::init", !.rejects = rejects,
                                   !.stages = shaders])
            /\ shaders' = r.out
    /\ UNCHANGED <<layout, stride, history, bufs, vaos, texs, progs, file, wr>>

\* program.init(pipeline), on a program that holds no handle yet.
ProgramInit ==
    /\ crashed = ""
    /\ \E p \in ProgIds, link \in BOOLEAN :
         /\ progs[p].handle = 0
         /\ LET env == [Env0 EXCEPT !.link = link]
                r == Program_init(Start(gl), shaders, env)
            IN /\ Ran(r, [NoOp EXCEPT !.op = "Program::init", !.obj = p,
                                      !.handle = progs[p].handle, !.link = link,
                                      !.stages = shaders])
               /\ progs' = [progs EXCEPT ![p].handle = r.out]
    /\ UNCHANGED <<layout, stride, history, bufs, vaos, texs, shaders, file, wr>>

\* program.freeMem()
ProgramFreeMem ==
    /\ crashed = ""
    /\ \E p \in ProgIds :
         LET r == Program_freeMem(Start(gl), progs[p], Env0)
         IN /\ Ran(r, [NoOp EXCEPT !.op = "Program::freeMem", !.obj = p,
                                   !.handle = progs[p].handle, !.stages = shaders])
            /\ progs' = IF r.crashed = "" THEN [progs EXCEPT ![p].handle = 0] ELSE progs
    /\ UNCHANGED <<layout, stride, history, bufs, vaos, texs, shaders, file, wr>>

NextPipeline == PipelineInit \/ ProgramInit \/ ProgramFreeMem

SpecPipeline == InitPipeline /\ [][NextPipeline]_vars

(***************************************************************************)
(* Properties of SpecPipeline.                                             *)
(***************************************************************************)
CallsOf(ops) == {i \in 1..Len(calls) : calls[i].op \in ops}

\* Pipeline::init has run on the file and the compiler rejected nothing.
Parsed == last.op = "Pipeline::init" /\ last.rejects = {} /\ crashed = ""

\* The pipeline holds exactly a Vertex stage compiled from A and a Fragment
\* stage compiled from B.
StagesAre(A, B) ==
    /\ ~hasError(last.ret)
    /\ DOMAIN shaders = ShaderTypes
    /\ gl.shaderNames = {shaders["Vertex"], shaders["Fragment"]}
    /\ Cardinality(CallsOf({"glCreateShader"})) = 2
    /\ \A t \in ShaderTypes :
         /\ gl.shader[shaders[t]].kind = convertShaderType(t)
         /\ gl.shader[shaders[t]].compiled
    /\ gl.shader[shaders["Vertex"]].src = A
    /\ gl.shader[shaders["Fragment"]].src = B

\* C8: for a file made of a vertex marker line, a text A, a fragment marker
\* line and a text B, Pipeline::init produces exactly two stages, the Vertex
\* stage compiled from exactly the bytes of A and the Fragment stage from
\* exactly the bytes of B, no byte of a marker line included.
C8_TwoStagesFromTexts ==
    \A A \in Texts, B \in Texts :
        (Parsed /\ file = File(TwoStages(VertexToken, A, FragmentToken, B)))
            => StagesAre(A, B)

\* The same for texts in which the directive does not occur: this part of C8
\* the code fulfils.
C8_PlainTexts ==
    \A A \in PlainTexts, B \in PlainTexts :
        (Parsed /\ file = File(TwoStages(VertexToken, A, FragmentToken, B)))
            => StagesAre(A, B)

C8_PlainReached ==
    /\ Parsed
    /\ file = File(TwoStages(VertexToken, <<"a", "\n">>, FragmentToken,
                             <<"b", ";", "\n", "c", "\n">>))
    /\ StagesAre(<<"a", "\n">>, <<"b", ";", "\n", "c", "\n">>)

\* The message of the failure names the token.
Names_(token) ==
    /\ hasError(last.ret)
    /\ Len(last.ret.message) = 2
    /\ find(last.ret.message[2], token, 0) # npos

\* C9: if a marker of the file names a stage kind other than vertex or
\* fragment, Pipeline::init returns a failure whose message contains that
\* token.  The texts are those without the directive.
C9_UnknownKindRejected ==
    /\ \A t \in Tokens \ KnownTokens, A \in PlainTexts :
         (Parsed /\ file = File(OneStage(t, A))) => Names_(t)
    /\ \A t1 \in Tokens, t2 \in Tokens, A \in PlainTexts, B \in PlainTexts :
         (Parsed /\ file = File(TwoStages(t1, A, t2, B)) /\ {t1, t2} \ KnownTokens # {})
            => \E t \in {t1, t2} \ KnownTokens : Names_(t)

\* The part of C9 the code fulfils: a token that does not start with vertex
\* or fragment.
C9_Geometry ==
    /\ \A A \in PlainTexts :
         (Parsed /\ file = File(OneStage(GeometryToken, A))) => Names_(GeometryToken)
    /\ \A t1 \in KnownTokens, A \in PlainTexts, B \in PlainTexts :
         (Parsed /\ file = File(TwoStages(t1, A, GeometryToken, B)))
            => Names_(GeometryToken)

C9_GeometryReached ==
    /\ Parsed
    /\ file = File(TwoStages(VertexToken, <<"a", "\n">>, GeometryToken, <<>>))
    /\ Names_(GeometryToken)

LinkDiagnostic == ErrorCode("-1", "Error while linking shaders code.\n%s", <<"infoLog">>)

\* Program::init got as far as linking and failed.
LinkFailed ==
    /\ last.op = "Program::init" /\ crashed = ""
    /\ CallsOf({"glLinkProgram"}) # {}
    /\ hasError(last.ret)

\* C10: if Program::init fails at the link step it returns the link
\* diagnostic, the call detaches and frees no stage, and every stage of the
\* pipeline keeps its handle and is still attached to the program object.
C10_LinkFailureKeepsStages ==
    LinkFailed =>
        /\ last.ret = LinkDiagnostic
        /\ CallsOf({"glDetachShader", "glDeleteShader", "glDeleteProgram"}) = {}
        /\ shaders = last.stages
        /\ \A t \in DOMAIN shaders :
             /\ shaders[t] \in gl.shaderNames
             /\ \E p \in ProgIds : /\ progs[p].handle \in gl.progNames
                                   /\ shaders[t] \in gl.program[progs[p].handle].attached

C10_Witness ==
    /\ LinkFailed
    /\ DOMAIN shaders = ShaderTypes
    /\ \A t \in ShaderTypes : gl.shader[shaders[t]].compiled
    /\ gl.program[progs[1].handle].attached = {shaders["Vertex"], shaders["Fragment"]}

(***************************************************************************)
(* SpecTeardown: the life of one Buffer, one VAO, one Texture2D and one    *)
(* Program: each is initialised, freed and destroyed in any order, and     *)
(* history holds the operations so far.  The pipeline the program is       *)
(* initialised from holds no stage.  Assertions are compiled in.           *)
(***************************************************************************)
Classes == {"Buffer", "VAO", "Texture2D", "Program"}
TexIds == {1}
Images == {NoImage, Image(1, 1, 3), Image(1, 1, 4)}

Step(op, class) == [op |-> op, class |-> class]

\* The object of the class has not been destroyed and may be operated on.
CanStep(class) ==
    /\ crashed = ""
    /\ Len(history) < MaxOps
    /\ Step("destroy", class) \notin Range(history)

Log(r, op, class, handle) ==
    /\ Ran(r, [NoOp EXCEPT !.op = op, !.obj = 1, !.handle = handle])
    /\ history' = Append(history, Step(op, class))
    /\ UNCHANGED <<layout, stride, shaders, file, wr>>

InitTeardown ==
    /\ layout = <<>> /\ stride = 0 /\ history = <<>>
    /\ gl = GLInit
    /\ bufs = [i \in BufIds |-> BufferBase("Vertex")]
    /\ vaos = [v \in VaoIds |-> VAO]
    /\ texs = [t \in TexIds |-> Texture2D]
    /\ progs = [p \in ProgIds |-> Program]
    /\ shaders = <<>> /\ file = NoFile
    /\ last = NoOp /\ calls = <<>> /\ wr = NoWrite /\ crashed = ""

\* buffer.init(1, data)
BufferInit ==
    /\ CanStep("Buffer")
    /\ \E n \in Names \ gl.bufNames :
         LET r == BufferBase_init2(Start(gl), bufs[1], 1, Data(<<1>>),
                                   [Env0 EXCEPT !.name = n])
         IN /\ Log(r, "init", "Buffer", bufs[1].handle)
            /\ bufs' = [bufs EXCEPT ![1].handle = n]
    /\ UNCHANGED <<vaos, texs, progs>>

\* buffer.freeMem()
BufferFreeMem ==
    /\ CanStep("Buffer")
    /\ Log(BufferBase_freeMem(Start(gl), bufs[1], Env0), "freeMem", "Buffer", bufs[1].handle)
    /\ UNCHANGED <<bufs, vaos, texs, progs>>

\* BufferBase::~BufferBase(): freeMem();
BufferDestroy ==
    /\ CanStep("Buffer")
    /\ Log(BufferBase_freeMem(Start(gl), bufs[1], Env0), "destroy", "Buffer", bufs[1].handle)
    /\ UNCHANGED <<bufs, vaos, texs, progs>>

\* vao.init()
VaoInitOnce ==
    /\ CanStep("VAO")
    /\ \E n \in Names \ gl.vaoNames :
         LET r == VAO_init(Start(gl), vaos[1], [Env0 EXCEPT !.name = n])
         IN /\ Log(r, "init", "VAO", vaos[1].handle)
            /\ vaos' = IF r.crashed = "" THEN [vaos EXCEPT ![1].handle = n] ELSE vaos
    /\ UNCHANGED <<bufs, texs, progs>>

\* vao.freeMem()
VaoFreeMem ==
    /\ CanStep("VAO")
    /\ Log(VAO_freeMem(Start(gl), vaos[1], Env0), "freeMem", "VAO", vaos[1].handle)
    /\ UNCHANGED <<bufs, vaos, texs, progs>>

\* VAO::~VAO(): freeMem();
VaoDestroy ==
    /\ CanStep("VAO")
    /\ Log(VAO_freeMem(Start(gl), vaos[1], Env0), "destroy", "VAO", vaos[1].handle)
    /\ UNCHANGED <<bufs, vaos, texs, progs>>

\* texture.init(path, format, wrap, filter)
TextureInit ==
    /\ CanStep("Texture2D")
    /\ \E n \in Names \ gl.texNames, img \in Images :
         LET env == [Env0 EXCEPT !.name = n]
             r == Texture2D_init(Start(gl), texs[1], img, env)
         IN /\ Log(r, "init", "Texture2D", texs[1].texture)
            /\ texs' = [texs EXCEPT ![1] = Texture2D_afterInit(@, img, env)]
    /\ UNCHANGED <<bufs, vaos, progs>>

\* A faulty texture.freeMem(): the stored handle is not reset.
TextureFreeMem_KeepHandle ==
    /\ CanStep("Texture2D")
    /\ LET r == Texture2D_freeMem(Start(gl), texs[1], Env0)
       IN /\ Log(r, "freeMem", "Texture2D", texs[1].texture)
          /\ texs' = texs
    /\ UNCHANGED <<bufs, vaos, progs>>

\* texture.freeMem()
TextureFreeMem ==
    /\ CanStep("Texture2D")
    /\ LET r == Texture2D_freeMem(Start(gl), texs[1], Env0)
       IN /\ Log(r, "freeMem", "Texture2D", texs[1].texture)
          /\ texs' = IF r.crashed = "" THEN [texs EXCEPT ![1].texture = 0] ELSE texs
    /\ UNCHANGED <<bufs, vaos, progs>>

\* Texture2D::~Texture2D(): freeMem();
TextureDestroy ==
    /\ CanStep("Texture2D")
    /\ LET r == Texture2D_freeMem(Start(gl), texs[1], Env0)
       IN /\ Log(r, "destroy", "Texture2D", texs[1].texture)
          /\ texs' = IF r.crashed = "" THEN [texs EXCEPT ![1].texture = 0] ELSE texs
    /\ UNCHANGED <<bufs, vaos, progs>>

\* program.init(pipeline)
ProgramInitEmpty ==
    /\ CanStep("Program")
    /\ \E link \in BOOLEAN :
         LET r == Program_init(Start(gl), shaders, [Env0 EXCEPT !.link = link])
         IN /\ Log(r, "init", "Program", progs[1].handle)
            /\ progs' = [progs EXCEPT ![1].handle = r.out]
    /\ UNCHANGED <<bufs, vaos, texs>>

\* program.freeMem()
ProgramFree ==
    /\ CanStep("Program")
    /\ LET r == Program_freeMem(Start(gl), progs[1], Env0)
       IN /\ Log(r, "freeMem", "Program", progs[1].handle)
          /\ progs' = IF r.crashed = "" THEN [progs EXCEPT ![1].handle = 0] ELSE progs
    /\ UNCHANGED <<bufs, vaos, texs>>

\* Program::~Program(): freeMem();
ProgramDestroy ==
    /\ CanStep("Program")
    /\ LET r == Program_freeMem(Start(gl), progs[1], Env0)
       IN /\ Log(r, "destroy", "Program", progs[1].handle)
          /\ progs' = IF r.crashed = "" THEN [progs EXCEPT ![1].handle = 0] ELSE progs
    /\ UNCHANGED <<bufs, vaos, texs>>

NextTeardown ==
    \/ BufferInit \/ BufferFreeMem \/ BufferDestroy
    \/ VaoInitOnce \/ VaoFreeMem \/ VaoDestroy
    \/ TextureInit \/ TextureFreeMem \/ TextureDestroy
    \/ ProgramInitEmpty \/ ProgramFree \/ ProgramDestroy

SpecTeardown == InitTeardown /\ [][NextTeardown]_vars

(***************************************************************************)
(* Properties of SpecTeardown.                                             *)
(***************************************************************************)
\* The last operation was a teardown of an object that was never initialised,
\* or a freeMem() that follows a freeMem() of the same object.
RepeatedOrEarlyTeardown ==
    /\ history # <<>>
    /\ LET n == Len(history)
           h == history[n]
       IN \/ /\ h.op \in {"freeMem", "destroy"}
             /\ \A i \in 1..(n - 1) :
                  history[i].class = h.class => history[i].op # "init"
          \/ /\ h.op = "freeMem"
             /\ n > 1
             /\ history[n - 1] = h

\* C6: for each of Buffer, VAO, Texture2D and Program, calling freeMem() twice
\* in a row on the same instance, or calling freeMem() (or running the
\* destructor) on an instance that was never initialised, raises no device
\* error and does not crash or fail an assertion.
C6_IdempotentTeardown ==
    RepeatedOrEarlyTeardown => (crashed = "" /\ gl.err = "GL_NO_ERROR")

\* The same for the classes other than VAO: this part of C6 the code fulfils.
C6_ExceptVAO ==
    (RepeatedOrEarlyTeardown /\ history[Len(history)].class # "VAO")
        => (crashed = "" /\ gl.err = "GL_NO_ERROR")

C6_ExceptVAOReached ==
    /\ Len(history) = 3
    /\ history[1] = Step("init", "Program")
    /\ history[2] = Step("freeMem", "Program")
    /\ history[3] = Step("freeMem", "Program")
    /\ crashed = ""

\* Program::init has returned success.
Linked == last.op = "Program::init" /\ crashed = "" /\ ~hasError(last.ret)

\* C11: a successful Program::init(pipeline) attaches every stage of the
\* pipeline before it links, and when it returns success no stage is attached
\* to the program any more while every stage still owns its undeleted handle.
C11_SuccessDetachesStages ==
    Linked =>
        /\ \A t \in DOMAIN shaders :
             \E i \in CallsOf({"glAttachShader"}) :
                /\ calls[i].args = <<last.out, shaders[t]>>
                /\ \A j \in CallsOf({"glLinkProgram"}) : i < j
        /\ CallsOf({"glLinkProgram"}) # {}
        /\ last.out \in gl.progNames
        /\ gl.program[last.out].attached = {}
        /\ shaders = last.stages
        /\ CallsOf({"glDeleteShader"}) = {}
        /\ \A t \in DOMAIN shaders :
             shaders[t] \in gl.shaderNames /\ ~gl.shader[shaders[t]].flagged

\* A program has been linked from a Vertex and a Fragment stage.
C11_Witness ==
    /\ Linked
    /\ DOMAIN shaders = ShaderTypes
    /\ Cardinality(CallsOf({"glAttachShader"})) = 2
    /\ Cardinality(CallsOf({"glDetachShader"})) = 2
    /\ gl.program[last.out].linked

(***************************************************************************)
(* SpecTexture: one Texture2D and the images it is initialised from.       *)
(***************************************************************************)
Channels == {1, 3, 4}
DecodedImages ==
    {NoImage} \cup {Image(w, h, c) : w \in 1..MaxDim, h \in 1..MaxDim, c \in Channels}

InitTexture == InitTeardown

\* texture.init(path, format, wrap, filter)
TexInit ==
    /\ crashed = ""
    /\ \E n \in Names \ gl.texNames, img \in DecodedImages, oom \in BOOLEAN :
         LET env == [Env0 EXCEPT !.name = n, !.oom = oom]
             r == Texture2D_init(Start(gl), texs[1], img, env)
         IN /\ Ran(r, [NoOp EXCEPT !.op = "Texture2D::init", !.obj = 1,
                                   !.handle = texs[1].texture, !.img = img, !.oom = oom])
            /\ texs' = [texs EXCEPT ![1] = Texture2D_afterInit(@, img, env)]
    /\ UNCHANGED <<layout, stride, history, bufs, vaos, progs, shaders, file, wr>>

\* texture.init(path, format, wrapU, wrapV, minFilter, maxFilter, mipMapFilter)
TexInitExt ==
    /\ crashed = ""
    /\ \E n \in Names \ gl.texNames, img \in DecodedImages, oom \in BOOLEAN,
          mip \in MipMapFilters :
         LET env == [Env0 EXCEPT !.name = n, !.oom = oom]
             r == Texture2D_initExt(Start(gl), texs[1], img, mip, env)
         IN /\ Ran(r, [NoOp EXCEPT !.op = "Texture2D::init (extended)", !.obj = 1,
                                   !.handle = texs[1].texture, !.img = img, !.oom = oom,
                                   !.mip = mip])
            /\ texs' = [texs EXCEPT ![1] = Texture2D_afterInit(@, img, env)]
    /\ UNCHANGED <<layout, stride, history, bufs, vaos, progs, shaders, file, wr>>

\* texture.freeMem()
TexFreeMem ==
    /\ crashed = ""
    /\ LET r == Texture2D_freeMem(Start(gl), texs[1], Env0)
       IN /\ Ran(r, [NoOp EXCEPT !.op = "Texture2D::freeMem", !.obj = 1,
                                 !.handle = texs[1].texture])
          /\ texs' = IF r.crashed = "" THEN [texs EXCEPT ![1].texture = 0] ELSE texs
    /\ UNCHANGED <<layout, stride, history, bufs, vaos, progs, shaders, file, wr>>

NextTexture == TexInit \/ TexInitExt \/ TexFreeMem

SpecTexture == InitTexture /\ [][NextTexture]_vars

TextureInits == {"Texture2D::init", "Texture2D::init (extended)"}

\* C12: Texture2D::init (both overloads) on an image decoded with 4 channels
\* returns a failure whose message reports 4 as the channel count found, and
\* allocates no texture handle: the handle of the texture is what it was (0 on
\* a fresh texture) and no device texture is created.
C12_ChannelGate ==
    [][(last'.op \in TextureInits /\ last'.img.loaded /\ last'.img.channelsCount = 4) =>
          /\ crashed' = ""
          /\ hasError(last'.ret)
          /\ last'.ret.message =
                <<"Unsupported data format. Channels count is: %d", 4>>
          /\ texs'[1].texture = texs[1].texture
          /\ gl'.texNames = gl.texNames
          /\ calls' = <<>>]_vars

\* Each overload has been given a 4-channel image on a fresh texture.
C12_Witness ==
    /\ last.op = "Texture2D::init (extended)"
    /\ last.img = Image(2, 1, 4)
    /\ hasError(last.ret)
    /\ texs[1].texture = 0 /\ gl.texNames = {}

(***************************************************************************)
(* SpecOwnership: two objects of each handle-owning class, all of them     *)
(* default-constructed at the start, and the operations that create, pass  *)
(* on and give up handles.  history holds the operations so far.           *)
(***************************************************************************)
OwnIds == {1, 2}
OwnerClasses == {"Buffer", "Shader", "Program", "VAO", "Texture2D"}

\* Shader::Shader() : handle(0)
Shader == [handle |-> 0]

Objs(class) ==
    CASE class = "Buffer" -> bufs
      [] class = "Shader" -> shaders
      [] class = "Program" -> progs
      [] class = "VAO" -> vaos
      [] class = "Texture2D" -> texs

HandleOf(class, obj) == IF class = "Texture2D" THEN obj.texture ELSE obj.handle

WithHandle(class, obj, h) ==
    IF class = "Texture2D" THEN [obj EXCEPT !.texture = h] ELSE [obj EXCEPT !.handle = h]

\* The objects of the class become objs, the other classes keep theirs.
Put(class, objs) ==
    /\ bufs' = IF class = "Buffer" THEN objs ELSE bufs
    /\ shaders' = IF class = "Shader" THEN objs ELSE shaders
    /\ progs' = IF class = "Program" THEN objs ELSE progs
    /\ vaos' = IF class = "VAO" THEN objs ELSE vaos
    /\ texs' = IF class = "Texture2D" THEN objs ELSE texs

\* The names of the class that the device has in use.
DeviceNames(g, class) ==
    CASE class = "Buffer" -> g.bufNames
      [] class = "Shader" -> g.shaderNames
      [] class = "Program" -> g.progNames
      [] class = "VAO" -> g.vaoNames
      [] class = "Texture2D" -> g.texNames

\* The names the device may hand out to an init of the class (shader and
\* program names are picked by NewObjName).
FreshNames(g, class) ==
    IF class \in {"Shader", "Program"} THEN {NewObjName(g)}
    ELSE Names \ DeviceNames(g, class)

OwnStep(op, class, id, from) == [op |-> op, class |-> class, id |-> id, from |-> from]

\* Whether object id of the class exists: it does from the start, stops at
\* its destructor and starts again when it is move-constructed.
RECURSIVE LiveAfter(_, _, _)
LiveAfter(h, class, id) ==
    IF h = <<>> THEN TRUE
    ELSE LET e == h[Len(h)]
         IN IF e.class = class /\ e.id = id /\ e.op \in {"destroy", "move-construct"}
            THEN e.op = "move-construct"
            ELSE LiveAfter(SubSeq(h, 1, Len(h) - 1), class, id)

Live(class, id) == LiveAfter(history, class, id)

CanOwnStep == crashed = "" /\ Len(history) < MaxOwnOps

OwnLog(r, step) ==
    /\ Ran(r, [NoOp EXCEPT !.op = step.op, !.obj = step.id])
    /\ history' = Append(history, step)
    /\ UNCHANGED <<layout, stride, file, wr>>

InitOwnership ==
    /\ layout = <<>> /\ stride = 0 /\ history = <<>>
    /\ gl = GLInit
    /\ bufs = [i \in OwnIds |-> BufferBase("Vertex")]
    /\ vaos = [i \in OwnIds |-> VAO]
    /\ texs = [i \in OwnIds |-> Texture2D]
    /\ progs = [i \in OwnIds |-> Program]
    /\ shaders = [i \in OwnIds |-> Shader]
    /\ file = NoFile
    /\ last = NoOp /\ calls = <<>> /\ wr = NoWrite /\ crashed = ""

\* init of an object of the class: BufferBase::init(0, data), Shader::
\* loadFromSource(source, type), Program::init(pipeline) with an empty
\* pipeline, VAO::init(), Texture2D::init(...) on a 3-channel image.
OwnInitRun(class, obj, env) ==
    CASE class = "Buffer" -> BufferBase_init2(Start(gl), obj, 0, Data(<<>>), env)
      [] class = "Shader" ->
            Shader_loadFromSource([Start(gl) EXCEPT !.out = <<>>], <<>>, "Vertex", env)
      [] class = "Program" -> Program_init(Start(gl), <<>>, env)
      [] class = "VAO" -> VAO_init(Start(gl), obj, env)
      [] class = "Texture2D" -> Texture2D_init(Start(gl), obj, Image(1, 1, 3), env)

\* The object after that init.
OwnInitObj(class, obj, r, env) ==
    CASE class = "Buffer" -> [obj EXCEPT !.handle = env.name]
      [] class = "Shader" -> [obj EXCEPT !.handle = r.out["Vertex"]]
      [] class = "Program" -> [obj EXCEPT !.handle = r.out]
      [] class = "VAO" -> IF r.crashed = "" THEN [obj EXCEPT !.handle = env.name] ELSE obj
      [] class = "Texture2D" -> Texture2D_afterInit(obj, Image(1, 1, 3), env)

\* What the destructor of the class does, which is freeMem() for all but
\* Shader: Shader::~Shader() { glDeleteShader(handle); }
OwnTeardownRun(class, obj) ==
    CASE class = "Buffer" -> BufferBase_freeMem(Start(gl), obj, Env0)
      [] class = "Shader" ->
            Return(Issue(Start(gl), Call("glDeleteShader", <<obj.handle>>), Env0), NoError)
      [] class = "Program" -> Program_freeMem(Start(gl), obj, Env0)
      [] class = "VAO" -> VAO_freeMem(Start(gl), obj, Env0)
      [] class = "Texture2D" -> Texture2D_freeMem(Start(gl), obj, Env0)

\* Program::freeMem and Texture2D::freeMem reset the handle, BufferBase::freeMem
\* and VAO::freeMem keep it.
OwnAfterFreeMem(class, obj, r) ==
    IF class \in {"Program", "Texture2D"} /\ r.crashed = ""
    THEN WithHandle(class, obj, 0) ELSE obj

\* Texture2D declares a destructor and no copy or move operation: its move
\* construction and move assignment are the implicit copies.
Moves(class) == class # "Texture2D"

\* The device work of operator=(T&& other) on the target: freeMem() for
\* Buffer, Program and VAO, glDeleteShader(handle) for Shader, none for the
\* implicit assignment of Texture2D.
OwnMoveAssignRun(class, target) ==
    IF Moves(class) THEN OwnTeardownRun(class, target) ELSE Return(Start(gl), NoError)

\* A faulty move, after which the source still holds its handle.
TakeOver_SourceKeeps(class, objs, to, from) ==
    [i \in OwnIds |-> IF i = to THEN objs[from] ELSE objs[i]]

\* Target and source after T(T&& other) or operator=(T&& other).
TakeOver(class, objs, to, from) ==
    [i \in OwnIds |->
        IF i = to THEN objs[from]
        ELSE IF i = from /\ Moves(class) THEN WithHandle(class, objs[from], 0)
        ELSE objs[i]]

OwnInit ==
    /\ CanOwnStep
    /\ \E class \in OwnerClasses, id \in OwnIds :
         /\ Live(class, id)
         /\ \E n \in FreshNames(gl, class) :
              LET env == [Env0 EXCEPT !.name = n]
                  r == OwnInitRun(class, Objs(class)[id], env)
              IN /\ OwnLog(r, OwnStep("init", class, id, 0))
                 /\ Put(class, [Objs(class) EXCEPT ![id] = OwnInitObj(class, @, r, env)])

OwnFreeMem ==
    /\ CanOwnStep
    /\ \E class \in OwnerClasses \ {"Shader"}, id \in OwnIds :
         /\ Live(class, id)
         /\ LET r == OwnTeardownRun(class, Objs(class)[id])
            IN /\ OwnLog(r, OwnStep("freeMem", class, id, 0))
               /\ Put(class, [Objs(class) EXCEPT ![id] = OwnAfterFreeMem(class, @, r)])

\* T b(std::move(a)): object to comes into being from object from.
OwnMoveConstruct ==
    /\ CanOwnStep
    /\ \E class \in OwnerClasses, to \in OwnIds, from \in OwnIds :
         /\ ~Live(class, to) /\ Live(class, from)
         /\ OwnLog(Return(Start(gl), NoError), OwnStep("move-construct", class, to, from))
         /\ Put(class, TakeOver(class, Objs(class), to, from))

\* b = std::move(a), on two different objects.
OwnMoveAssign ==
    /\ CanOwnStep
    /\ \E class \in OwnerClasses, to \in OwnIds, from \in OwnIds :
         /\ to # from /\ Live(class, to) /\ Live(class, from)
         /\ LET r == OwnMoveAssignRun(class, Objs(class)[to])
            IN /\ OwnLog(r, OwnStep("move-assign", class, to, from))
               /\ Put(class, IF r.crashed = "" THEN TakeOver(class, Objs(class), to, from)
                              ELSE Objs(class))

\* The destructor of object id runs.
OwnDestroy ==
    /\ CanOwnStep
    /\ \E class \in OwnerClasses, id \in OwnIds :
         /\ Live(class, id)
         /\ LET r == OwnTeardownRun(class, Objs(class)[id])
            IN /\ OwnLog(r, OwnStep("destroy", class, id, 0))
               /\ Put(class, [Objs(class) EXCEPT ![id] = OwnAfterFreeMem(class, @, r)])

NextOwnership ==
    OwnInit \/ OwnFreeMem \/ OwnMoveConstruct \/ OwnMoveAssign \/ OwnDestroy

SpecOwnership == InitOwnership /\ [][NextOwnership]_vars

\* The objects of the class that exist and hold the handle.
Holders(class, h) ==
    {i \in OwnIds : Live(class, i) /\ HandleOf(class, Objs(class)[i]) = h}

\* C13: after any sequence of init, freeMem, move construction, move
\* assignment and destruction on Buffer, Shader, Program, VAO and Texture2D
\* objects, no non-zero handle that is live on the device is held by two
\* objects (the claim says: by exactly one).
C13_SingleOwner ==
    \A class \in OwnerClasses :
        \A h \in DeviceNames(gl, class) : Cardinality(Holders(class, h)) <= 1

\* The same when no freeMem() is called and no Texture2D is moved: this part
\* of C13 the code fulfils.
C13_MovesOnly ==
    (\A i \in 1..Len(history) :
        /\ history[i].op # "freeMem"
        /\ history[i].class = "Texture2D" => history[i].op \notin {"move-construct", "move-assign"})
    => C13_SingleOwner

C13_MovesOnlyReached ==
    /\ Len(history) = 2
    /\ history[1] = OwnStep("init", "Buffer", 1, 0)
    /\ history[2] = OwnStep("move-assign", "Buffer", 2, 1)
    /\ bufs[2].handle # 0 /\ bufs[1].handle = 0
    /\ bufs[2].handle \in gl.bufNames

\* C14: no public operation of the layer aborts the process: every failure,
\* teardown of a default-constructed object included, is reported through the
\* returned result or ignored, and no assertion of the layer fails.
C14_NeverAborts ==
    history # <<>> => crashed = ""

\* Device calls that only read device state.
DeviceQueries ==
    {"glGetError", "glGetShaderiv", "glGetShaderInfoLog", "glGetProgramiv",
     "glGetProgramInfoLog", "glGetUniformLocation"}

\* Every state-changing device call of the last operation is directly
\* followed by a query of the error flag.
EachCallQueried ==
    \A i \in 1..Len(calls) :
        calls[i].op \notin DeviceQueries =>
            (i < Len(calls) /\ calls[i + 1].op = "glGetError")

\* C15: in every operation of the layer each state-changing device call is
\* followed by a query of the device error status before the next device call
\* is issued (and an error found ends the operation).
C15_QueryAfterEachCall ==
    last.op \in TextureInits => EachCallQueried

\* The same for the first overload of Texture2D::init alone: this part of C15
\* the code fulfils.
C15_BasicInit ==
    last.op = "Texture2D::init" => EachCallQueried

C15_BasicInitReached ==
    /\ last.op = "Texture2D::init" /\ ~hasError(last.ret)
    /\ Len(calls) > 2

(***************************************************************************)
(* SpecParse: Pipeline::init on files of other shapes: files with no       *)
(* marker, files with a text before the first marker, marker lines with    *)
(* other runs of blanks, and files of one to three stages in any order.    *)
(***************************************************************************)
\* "a comment\n"
CommentLine == <<"a", " ", "c", "o", "m", "m", "e", "n", "t", "\n">>

\* Contents in which the directive does not occur; the first three hold none
\* of its characters either.
CleanTexts == {<<>>, <<"x", "\n">>, <<"/", "/", " ", "x", "\n">>}
MarkerFree == CleanTexts \cup {<<"a", "\n">>, CommentLine}

\* Texts that precede the first marker.
Preambles == {<<"/", "/", " ", "x", "\n">>, <<"x", " ">>, <<"a", "\n">>, CommentLine}

\* Runs of blanks between the directive and the name of the kind.
BlankRuns == {<<" ">>, <<"\t">>, <<" ", " ">>, <<"\t", "\t">>, <<" ", "\t">>}
MarkerLineWith(blanks, token) == Directive \o blanks \o token \o <<"\n">>

\* A file as a list of stages, each a marker line and its text.
StageTexts == {<<"a", "\n">>, <<"b", "\n">>}
StageOf == [token : KnownTokens, text : StageTexts]
StageLists == UNION {[1..n -> StageOf] : n \in 1..3}

RECURSIVE Build(_)
Build(ss) ==
    IF ss = <<>> THEN <<>>
    ELSE MarkerLine(Head(ss).token) \o Head(ss).text \o Build(Tail(ss))

Kind(token) == IF token = VertexToken THEN "Vertex" ELSE "Fragment"

\* Files whose last marker line has no terminating newline, and files whose
\* stages have empty texts.
UnterminatedFiles ==
    {File(Directive \o <<" ">> \o t) : t \in KnownTokens}
    \cup {File(OneStage(t1, A) \o Directive \o <<" ">> \o t2) :
            t1 \in KnownTokens, t2 \in KnownTokens, A \in StageTexts}
EmptySpanFiles ==
    {File(TwoStages(t1, <<>>, t2, <<>>)) : t1 \in KnownTokens, t2 \in KnownTokens}

ParseFiles ==
    {File(T) : T \in MarkerFree}
    \cup UnterminatedFiles \cup EmptySpanFiles
    \cup {File(P \o TwoStages(VertexToken, A, FragmentToken, B)) :
             P \in Preambles, A \in StageTexts, B \in StageTexts}
    \cup {File(MarkerLineWith(b, t) \o A) :
             b \in BlankRuns, t \in KnownTokens, A \in StageTexts}
    \cup {File(Build(ss)) : ss \in StageLists}

InitParse ==
    /\ layout = <<>> /\ stride = 0 /\ history = <<>>
    /\ gl = GLInit
    /\ bufs = [i \in BufIds |-> BufferBase("Vertex")]
    /\ vaos = [v \in VaoIds |-> VAO]
    /\ texs = <<>>
    /\ progs = [p \in ProgIds |-> Program]
    /\ shaders = <<>>
    /\ file \in ParseFiles
    /\ last = NoOp /\ calls = <<>> /\ wr = NoWrite /\ crashed = ""

NextParse == PipelineInit

SpecParse == InitParse /\ [][NextParse]_vars

\* Pipeline::init succeeded and the pipeline holds no stage.
EmptyPipeline ==
    /\ ~hasError(last.ret)
    /\ DOMAIN shaders = {}
    /\ CallsOf({"glCreateShader"}) = {}

\* C16: for a file in which the directive does not occur, non-empty text
\* included, Pipeline::init returns success and the pipeline holds no stage.
C16_NoMarkerNoStage ==
    \A T \in MarkerFree : (Parsed /\ file = File(T)) => EmptyPipeline

\* The same for contents that hold no character of the directive: this part
\* of C16 the code fulfils.
C16_CleanTexts ==
    \A T \in CleanTexts : (Parsed /\ file = File(T)) => EmptyPipeline

C16_CleanReached ==
    /\ Parsed /\ file = File(<<"/", "/", " ", "x", "\n">>)
    /\ EmptyPipeline

\* Preambles that hold no character of the directive.
CleanPreambles == {P \in Preambles : Range(P) \cap Range(Directive) = {}}

\* C17: Pipeline::init starts parsing at the first occurrence of the complete
\* directive: a text before the first marker, whatever its characters, is not
\* taken as a marker, is not compiled and causes no parse failure, so the
\* stages are those of the file without that text.
C17_PreambleIgnored ==
    \A P \in Preambles, A \in StageTexts, B \in StageTexts :
        (Parsed /\ file = File(P \o TwoStages(VertexToken, A, FragmentToken, B)))
            => StagesAre(A, B)

\* The same for a preamble that holds no character of the directive: this
\* part of C17 the code fulfils.
C17_CleanPreamble ==
    \A P \in CleanPreambles, A \in StageTexts, B \in StageTexts :
        (Parsed /\ file = File(P \o TwoStages(VertexToken, A, FragmentToken, B)))
            => StagesAre(A, B)

C17_CleanReached ==
    /\ Parsed
    /\ file = File(<<"/", "/", " ", "x", "\n">>
                   \o TwoStages(VertexToken, <<"a", "\n">>, FragmentToken, <<"b", "\n">>))
    /\ StagesAre(<<"a", "\n">>, <<"b", "\n">>)

\* The kinds the markers of ss name, and the last stage of ss of a kind.
KindsOf(ss) == {Kind(ss[i].token) : i \in 1..Len(ss)}
LastOf(ss, k) ==
    ss[CHOOSE i \in 1..Len(ss) :
         /\ Kind(ss[i].token) = k
         /\ \A j \in (i + 1)..Len(ss) : Kind(ss[j].token) # k]

\* The pipeline holds one stage for each kind ss names, compiled from the
\* text of the last marker of that kind.
HoldsLastOf(ss) ==
    /\ DOMAIN shaders = KindsOf(ss)
    /\ \A k \in KindsOf(ss) :
         /\ shaders[k] \in gl.shaderNames
         /\ gl.shader[shaders[k]].kind = convertShaderType(k)
         /\ gl.shader[shaders[k]].compiled
         /\ gl.shader[shaders[k]].src = LastOf(ss, k).text

\* C18: Pipeline::init accepts the markers in any order: a file of vertex and
\* fragment stages in whatever order is parsed with success, and the pipeline
\* then holds at most one stage per kind, for each kind the one compiled from
\* the last marker of that kind in the file.
C18_LastMarkerWins ==
    \A ss \in StageLists :
        (Parsed /\ file = File(Build(ss)))
            => (~hasError(last.ret) /\ HoldsLastOf(ss))

\* Fragment before vertex and the vertex kind twice: the second vertex text is
\* the one kept.
C18_Witness ==
    /\ Parsed
    /\ file = File(MarkerLine(FragmentToken) \o <<"a", "\n">>
                   \o MarkerLine(VertexToken) \o <<"a", "\n">>
                   \o MarkerLine(VertexToken) \o <<"b", "\n">>)
    /\ ~hasError(last.ret)
    /\ DOMAIN shaders = ShaderTypes
    /\ gl.shader[shaders["Vertex"]].src = <<"b", "\n">>
    /\ gl.shader[shaders["Fragment"]].src = <<"a", "\n">>
    /\ Cardinality(CallsOf({"glCreateShader"})) = 3

\* The pipeline holds exactly one stage, of kind k, compiled from A.
OneStageIs(k, A) ==
    /\ ~hasError(last.ret)
    /\ DOMAIN shaders = {k}
    /\ Cardinality(CallsOf({"glCreateShader"})) = 1
    /\ shaders[k] \in gl.shaderNames
    /\ gl.shader[shaders[k]].kind = convertShaderType(k)
    /\ gl.shader[shaders[k]].src = A

\* C19: only a line that begins with the directive introduces a stage: an
\* occurrence of the directive in the middle of a line of a stage's text
\* neither ends the text of that stage nor starts a new stage, so a file of
\* one marker line and such a text gives one stage compiled from the whole
\* text.
C19_LineInitialOnly ==
    \A t \in KnownTokens, A \in Texts :
        (Parsed /\ file = File(OneStage(t, A))) => OneStageIs(Kind(t), A)

\* The same for texts in which the directive does not occur: this part of
\* C19 the code fulfils.
C19_PlainTexts ==
    \A t \in KnownTokens, A \in PlainTexts :
        (Parsed /\ file = File(OneStage(t, A))) => OneStageIs(Kind(t), A)

C19_PlainReached ==
    /\ Parsed
    /\ file = File(OneStage(FragmentToken, <<"b", ";", "\n", "c", "\n">>))
    /\ OneStageIs("Fragment", <<"b", ";", "\n", "c", "\n">>)

\* C20: a marker line is recognised for any non-empty run of blanks between
\* the directive and the name of the kind: the directive, one or several
\* spaces or tabs and then vertex or fragment selects that kind.
C20_AnyBlankRun ==
    \A b \in BlankRuns, t \in KnownTokens, A \in StageTexts :
        (Parsed /\ file = File(MarkerLineWith(b, t) \o A)) => OneStageIs(Kind(t), A)

\* The same for a single blank, space or tab: this part of C20 the code
\* fulfils.
C20_OneBlank ==
    \A b \in {c \in BlankRuns : Len(c) = 1}, t \in KnownTokens, A \in StageTexts :
        (Parsed /\ file = File(MarkerLineWith(b, t) \o A)) => OneStageIs(Kind(t), A)

C20_OneBlankReached ==
    /\ Parsed
    /\ file = File(MarkerLineWith(<<"\t">>, FragmentToken) \o <<"b", "\n">>)
    /\ OneStageIs("Fragment", <<"b", "\n">>)

\* Tokens that start with the name of a kind and go on.
LongerTokens == {VertexToken \o <<"X">>, FragmentToken \o <<"s">>}

\* C21: a marker whose token is not exactly vertex or exactly fragment is a
\* parse failure: for a token that merely starts with one of the two names
\* Pipeline::init fails and compiles no stage for that marker.
C21_ExactTokenOnly ==
    \A t \in LongerTokens, A \in PlainTexts :
        (Parsed /\ file = File(OneStage(t, A)))
            => (hasError(last.ret) /\ CallsOf({"glCreateShader"}) = {})

\* The last operation was on the VAO, did not abort, and the VAO had been
\* freed before it.
AfterVaoReleased ==
    /\ history # <<>> /\ crashed = ""
    /\ history[Len(history)].class = "VAO"
    /\ \E i \in 1..(Len(history) - 1) : history[i] = Step("freeMem", "VAO")

\* C22: a VAO goes from Uninitialized through init, bind, unbind to freeMem,
\* and once released it holds no device handle: after freeMem the handle is
\* 0, and neither a later freeMem nor the destructor issues another device
\* delete for it.
C22_ReleasedHoldsNoHandle ==
    /\ (history # <<>> /\ crashed = "" /\ history[Len(history)] = Step("freeMem", "VAO"))
           => vaos[1].handle = 0
    /\ (AfterVaoReleased /\ history[Len(history)].op \in {"freeMem", "destroy"})
           => CallsOf({"glDeleteVertexArrays"}) = {}

(***************************************************************************)
(* SpecVao: two VAO objects and one vertex Buffer.  The VAOs are           *)
(* initialised, bound, unbound, freed, moved and destroyed; the buffer is  *)
(* initialised with a layout of one attribute, which the bound VAO then    *)
(* records, and freed.  history holds the operations so far.               *)
(***************************************************************************)
OneAttribute == addAttribute(EmptyLayout, "Float", 3, FALSE)

CanVaoStep == crashed = "" /\ Len(history) < MaxVaoOps

InitVao ==
    /\ layout = <<>> /\ stride = 0 /\ history = <<>>
    /\ gl = GLInit
    /\ bufs = [i \in BufIds |-> BufferBase("Vertex")]
    /\ vaos = [i \in OwnIds |-> VAO]
    /\ texs = <<>> /\ progs = <<>> /\ shaders = <<>> /\ file = NoFile
    /\ last = NoOp /\ calls = <<>> /\ wr = NoWrite /\ crashed = ""

\* The step was made on VAO id and left the objects vs; the buffers are not
\* the layer's to change in it.
VaoLog(r, op, id, from, vs) ==
    /\ OwnLog(r, OwnStep(op, "VAO", id, from))
    /\ vaos' = vs
    /\ UNCHANGED <<bufs, texs, progs, shaders>>

\* vao.init()
VaoOpInit ==
    /\ CanVaoStep
    /\ \E id \in OwnIds, n \in Names \ gl.vaoNames :
         /\ Live("VAO", id)
         /\ LET r == VAO_init(Start(gl), vaos[id], [Env0 EXCEPT !.name = n])
            IN VaoLog(r, "init", id, 0,
                      IF r.crashed = "" THEN [vaos EXCEPT ![id].handle = n] ELSE vaos)

\* vao.bind()
VaoOpBind ==
    /\ CanVaoStep
    /\ \E id \in OwnIds :
         /\ Live("VAO", id)
         /\ VaoLog(VAO_bind(Start(gl), vaos[id], Env0), "bind", id, 0, vaos)

\* vao.unbind()
VaoOpUnbind ==
    /\ CanVaoStep
    /\ \E id \in OwnIds :
         /\ Live("VAO", id)
         /\ VaoLog(VAO_unbind(Start(gl), vaos[id], Env0), "unbind", id, 0, vaos)

\* vao.freeMem()
VaoOpFreeMem ==
    /\ CanVaoStep
    /\ \E id \in OwnIds :
         /\ Live("VAO", id)
         /\ VaoLog(VAO_freeMem(Start(gl), vaos[id], Env0), "freeMem", id, 0, vaos)

\* VAO::~VAO(): freeMem();
VaoOpDestroy ==
    /\ CanVaoStep
    /\ \E id \in OwnIds :
         /\ Live("VAO", id)
         /\ VaoLog(VAO_freeMem(Start(gl), vaos[id], Env0), "destroy", id, 0, vaos)

\* VAO b(std::move(a))
VaoOpMoveConstruct ==
    /\ CanVaoStep
    /\ \E to \in OwnIds, from \in OwnIds :
         /\ ~Live("VAO", to) /\ Live("VAO", from)
         /\ VaoLog(Return(Start(gl), NoError), "move-construct", to, from,
                   TakeOver("VAO", vaos, to, from))

\* b = std::move(a): freeMem(); handle = other.handle; other.handle = 0;
VaoOpMoveAssign ==
    /\ CanVaoStep
    /\ \E to \in OwnIds, from \in OwnIds :
         /\ to # from /\ Live("VAO", to) /\ Live("VAO", from)
         /\ LET r == VAO_freeMem(Start(gl), vaos[to], Env0)
            IN VaoLog(r, "move-assign", to, from,
                      IF r.crashed = "" THEN TakeOver("VAO", vaos, to, from) ELSE vaos)

\* buffer.init(0, data, layout), as Line::init does under its bound VAO.
BufOpInit ==
    /\ CanVaoStep
    /\ \E n \in Names \ gl.bufNames :
         LET r == BufferBase_init3(Start(gl), bufs[1], 0, Data(<<>>), OneAttribute,
                                   [Env0 EXCEPT !.name = n])
         IN /\ OwnLog(r, OwnStep("init", "Buffer", 1, 0))
            /\ bufs' = [bufs EXCEPT ![1].handle = n]
    /\ UNCHANGED <<vaos, texs, progs, shaders>>

\* buffer.freeMem()
BufOpFreeMem ==
    /\ CanVaoStep
    /\ OwnLog(BufferBase_freeMem(Start(gl), bufs[1], Env0), OwnStep("freeMem", "Buffer", 1, 0))
    /\ UNCHANGED <<bufs, vaos, texs, progs, shaders>>

NextVao ==
    \/ VaoOpInit \/ VaoOpBind \/ VaoOpUnbind \/ VaoOpFreeMem \/ VaoOpDestroy
    \/ VaoOpMoveConstruct \/ VaoOpMoveAssign
    \/ BufOpInit \/ BufOpFreeMem

SpecVao == InitVao /\ [][NextVao]_vars

\* The device call i of the step just made is preceded, in that step, by
\* glBindVertexArray(0).
UnboundBefore(cs, i) ==
    \E j \in 1..(i - 1) : cs[j].op = "glBindVertexArray" /\ cs[j].args = <<0>>

\* C23: VAO::freeMem first binds the default vertex array 0 and only then
\* releases the handle, so the VAO it deletes is never the currently bound
\* one at the moment of the device delete.
C23_UnbindBeforeDelete ==
    [][\A i \in 1..Len(calls') :
          (calls'[i].op = "glDeleteVertexArrays" /\ calls'[i].args = <<gl.vaoBound>>)
              => UnboundBefore(calls', i)]_vars

\* The step is a freeMem() or the destructor of the texture.
TextureTeardownStep ==
    /\ Len(history') = Len(history) + 1
    /\ history'[Len(history')] \in {Step("freeMem", "Texture2D"), Step("destroy", "Texture2D")}

\* C24: Texture2D::freeMem releases the texture handle and leaves the stored
\* handle 0, so that further freeMem calls and the destructor delete no
\* device texture: each such step removes from the device the handle the
\* texture held, and no other, and ends with the handle 0.
C24_TextureReleasedOnce ==
    [][TextureTeardownStep =>
          /\ crashed' = ""
          /\ texs'[1].texture = 0
          /\ gl'.texNames = gl.texNames \ {texs[1].texture}
          /\ (texs[1].texture = 0 => gl'.texNames = gl.texNames)]_vars

\* A texture that held a handle has been freed.
C24_Witness ==
    /\ history = <<Step("init", "Texture2D"), Step("freeMem", "Texture2D")>>
    /\ crashed = ""
    /\ last.handle \in Names /\ last.handle \notin gl.texNames
    /\ texs[1].texture = 0
    /\ CallsOf({"glDeleteTextures"}) # {}

(***************************************************************************)
(* SpecUniform: two Program objects, initialised from a pipeline without   *)
(* stages, bound, unbound, given uniform values and freed.                 *)
(***************************************************************************)
UniformNames == ActiveUniforms \cup {"missing"}
UniformValues == {1, 2}

InitUniform ==
    /\ layout = <<>> /\ stride = 0 /\ history = <<>>
    /\ gl = GLInit
    /\ bufs = [i \in BufIds |-> BufferBase("Vertex")]
    /\ vaos = [v \in VaoIds |-> VAO]
    /\ texs = <<>> /\ shaders = <<>> /\ file = NoFile
    /\ progs = [i \in OwnIds |-> Program]
    /\ last = NoOp /\ calls = <<>> /\ wr = NoWrite /\ crashed = ""

UniformFrame == UNCHANGED <<layout, stride, history, bufs, vaos, texs, shaders, file, wr>>

\* program.init(pipeline), on a program that holds no handle.
UniInit ==
    /\ crashed = ""
    /\ \E p \in OwnIds, link \in BOOLEAN :
         /\ progs[p].handle = 0
         /\ LET r == Program_init(Start(gl), shaders, [Env0 EXCEPT !.link = link])
            IN /\ Ran(r, [NoOp EXCEPT !.op = "Program::init", !.obj = p, !.link = link])
               /\ progs' = [progs EXCEPT ![p].handle = r.out]
    /\ UniformFrame

\* program.bind()
UniBind ==
    /\ crashed = ""
    /\ \E p \in OwnIds :
         Ran(Program_bind(Start(gl), progs[p], Env0),
             [NoOp EXCEPT !.op = "Program::bind", !.obj = p, !.handle = progs[p].handle])
    /\ UNCHANGED progs /\ UniformFrame

\* program.unbind()
UniUnbind ==
    /\ crashed = ""
    /\ \E p \in OwnIds :
         Ran(Program_unbind(Start(gl), progs[p], Env0),
             [NoOp EXCEPT !.op = "Program::unbind", !.obj = p, !.handle = progs[p].handle])
    /\ UNCHANGED progs /\ UniformFrame

\* program.setUniform(name, value)
UniSetUniform ==
    /\ crashed = ""
    /\ \E p \in OwnIds, name \in UniformNames, value \in UniformValues, strict \in BOOLEAN :
         Ran(Program_setUniform(Start(gl), progs[p], name, value,
                                [Env0 EXCEPT !.strict = strict]),
             [NoOp EXCEPT !.op = "Program::setUniform", !.obj = p,
                          !.handle = progs[p].handle, !.size = value])
    /\ UNCHANGED progs /\ UniformFrame

\* program.freeMem()
UniFreeMem ==
    /\ crashed = ""
    /\ \E p \in OwnIds :
         LET r == Program_freeMem(Start(gl), progs[p], Env0)
         IN /\ Ran(r, [NoOp EXCEPT !.op = "Program::freeMem", !.obj = p,
                                   !.handle = progs[p].handle])
            /\ progs' = IF r.crashed = "" THEN [progs EXCEPT ![p].handle = 0] ELSE progs
    /\ UniformFrame

NextUniform == UniInit \/ UniBind \/ UniUnbind \/ UniSetUniform \/ UniFreeMem

SpecUniform == InitUniform /\ [][NextUniform]_vars

\* The step is a call of setUniform.
SetUniformStep == last'.op = "Program::setUniform" /\ calls' # <<>>

UniformValuesKept == \A n \in ObjNames : gl'.program[n].uniform = gl.program[n].uniform

\* The program the step is called on is linked and is the one in use.
OnProgramInUse ==
    /\ last'.handle \in gl.progNames
    /\ gl.program[last'.handle].linked
    /\ gl.curProgram = last'.handle

\* C25 as stated: Program::setUniform never changes which program is in use,
\* and a call with a name that resolves to no uniform returns success and
\* changes no uniform value.
C25_UnresolvedNameIsNoOp ==
    [][SetUniformStep =>
          /\ gl'.curProgram = gl.curProgram
          /\ last'.out = NoLocation
                => (~hasError(last'.ret) /\ UniformValuesKept)]_vars

\* C25 as the code has it: the same, for a call on a linked program that is
\* the one in use.
C25_UnresolvedNameOnProgramInUse ==
    [][SetUniformStep =>
          /\ gl'.curProgram = gl.curProgram
          /\ (OnProgramInUse /\ last'.out = NoLocation)
                => (~hasError(last'.ret) /\ UniformValuesKept)]_vars

\* The uniform of the program in use holds a value, and a call with an
\* unknown name has returned success.
C25_Witness ==
    /\ last.op = "Program::setUniform" /\ crashed = ""
    /\ last.out = NoLocation /\ ~hasError(last.ret)
    /\ last.handle # 0 /\ gl.curProgram = last.handle
    /\ gl.program[last.handle].linked
    /\ gl.program[last.handle].uniform = 2

(***************************************************************************)
(* SpecApply: layouts of every construction, applied to the buffers by     *)
(* init(size, data, layout) with and without a bound VAO.                  *)
(***************************************************************************)
\* The layouts a caller can build from l with at most n addAttribute calls.
RECURSIVE Extended(_, _)
Extended(l, n) ==
    IF n = 0 THEN {l}
    ELSE Extended(l, n - 1) \cup
         {addAttribute(m, a[1], a[2], a[3]) : m \in Extended(l, n - 1), a \in AttrChoices}

SizedLayouts ==
    UNION {Extended(BufferLayoutSized(n), MaxLayoutLen - n) : n \in 1..MaxLayoutLen}

AppliedLayouts == Layouts \cup SizedLayouts

NextApply ==
    \/ VaoInit({1}) \/ VaoBind
    \/ BufInit3(BufIds, Names, {0}, AppliedLayouts)

SpecApply == InitAttr /\ [][NextApply]_vars

\* The byte offset setLayoutInternal has reached after the attributes attrs.
RECURSIVE RunningOffset(_)
RunningOffset(attrs) ==
    IF attrs = <<>> THEN 0
    ELSE nextOffset(RunningOffset(SubSeq(attrs, 1, Len(attrs) - 1)), attrs[Len(attrs)])

GLTypeSize(glType) == IF glType \in {"GL_INT", "GL_FLOAT"} THEN 4 ELSE 0

\* C26: for every layout applied to a buffer, the byte offset reached after
\* the last attribute equals the stride passed to the device for every
\* attribute, getStride(), so each attribute's bytes lie inside one stride;
\* also for a layout built by BufferLayout(int count) and addAttribute calls.
C26_OffsetsWithinStride ==
    last.op = "init3" =>
        /\ RunningOffset(getAttributes(last.layout)) = getStride(last.layout)
        /\ \A i \in CallsOf({"glVertexAttribPointer"}) :
             /\ calls[i].args[5] = getStride(last.layout)
             /\ calls[i].args[6] >= 0
             /\ calls[i].args[6] + calls[i].args[2] * GLTypeSize(calls[i].args[3])
                    <= calls[i].args[5]
        /\ (~hasError(last.ret) /\ CallsOf({"glVertexAttribPointer"}) # {}) =>
             \E i \in CallsOf({"glVertexAttribPointer"}) :
                calls[i].args[6] + calls[i].args[2] * GLTypeSize(calls[i].args[3])
                    = calls[i].args[5]

\* A layout made by BufferLayout(1) and addAttribute(Float, 3) has been
\* applied: its stride is 12 and its first attribute has count 0.
C26_Witness ==
    /\ last.op = "init3"
    /\ last.layout = addAttribute(BufferLayoutSized(1), "Float", 3, FALSE)
    /\ getStride(last.layout) = 12
    /\ \E i \in CallsOf({"glVertexAttribPointer"}) :
          calls[i].args[2] = 0 /\ calls[i].args[5] = 12

(***************************************************************************)
(* SpecShader: two Shader objects.  A source is loaded into them, which    *)
(* the compiler accepts or rejects, and they are moved and destroyed.      *)
(* history holds the operations so far.                                    *)
(***************************************************************************)
CanShaderStep == crashed = "" /\ Len(history) < MaxShaderOps

InitShader ==
    /\ layout = <<>> /\ stride = 0 /\ history = <<>>
    /\ gl = GLInit
    /\ bufs = [i \in BufIds |-> BufferBase("Vertex")]
    /\ vaos = [v \in VaoIds |-> VAO]
    /\ texs = <<>> /\ progs = <<>> /\ file = NoFile
    /\ shaders = [i \in OwnIds |-> Shader]
    /\ last = NoOp /\ calls = <<>> /\ wr = NoWrite /\ crashed = ""

ShaderLog(r, op, id, from, rejects, ss) ==
    /\ Ran(r, [NoOp EXCEPT !.op = op, !.obj = id, !.handle = shaders[id].handle,
                           !.rejects = rejects])
    /\ history' = Append(history, OwnStep(op, "Shader", id, from))
    /\ shaders' = ss
    /\ UNCHANGED <<layout, stride, file, wr, bufs, vaos, texs, progs>>

\* shader.loadFromSource(source, type)
ShaderLoad ==
    /\ CanShaderStep
    /\ \E id \in OwnIds, rejects \in {{}, {"GL_VERTEX_SHADER"}} :
         /\ Live("Shader", id)
         /\ LET r == Shader_loadFromSource([Start(gl) EXCEPT !.out = <<>>], <<"a">>, "Vertex",
                                           [Env0 EXCEPT !.rejects = rejects])
            IN ShaderLog(r, "load", id, 0, rejects,
                         [shaders EXCEPT ![id].handle = r.out["Vertex"]])

\* Shader b(std::move(a))
ShaderMoveConstruct ==
    /\ CanShaderStep
    /\ \E to \in OwnIds, from \in OwnIds :
         /\ ~Live("Shader", to) /\ Live("Shader", from)
         /\ ShaderLog(Return(Start(gl), NoError), "move-construct", to, from, {},
                      TakeOver("Shader", shaders, to, from))

\* b = std::move(a): glDeleteShader(handle); handle = other.handle; other.handle = 0;
ShaderMoveAssign ==
    /\ CanShaderStep
    /\ \E to \in OwnIds, from \in OwnIds :
         /\ to # from /\ Live("Shader", to) /\ Live("Shader", from)
         /\ ShaderLog(OwnTeardownRun("Shader", shaders[to]), "move-assign", to, from, {},
                      TakeOver("Shader", shaders, to, from))

\* Shader::~Shader(): glDeleteShader(handle);
ShaderDestroy ==
    /\ CanShaderStep
    /\ \E id \in OwnIds :
         /\ Live("Shader", id)
         /\ ShaderLog(OwnTeardownRun("Shader", shaders[id]), "destroy", id, 0, {}, shaders)

NextShader == ShaderLoad \/ ShaderMoveConstruct \/ ShaderMoveAssign \/ ShaderDestroy

SpecShader == InitShader /\ [][NextShader]_vars

CompileDiagnostic == ErrorCode("-1", "Error in shader code.\n%s", <<"infoLog">>)

\* The device shader objects whose compilation failed.
FailedShaders(g) == {h \in g.shaderNames : ~g.shader[h].compiled}

\* The glDeleteShader calls of the step just made that name h.
DeletesOf(cs, h) ==
    {i \in 1..Len(cs) : cs[i].op = "glDeleteShader" /\ cs[i].args = <<h>>}

\* C27: when Shader::loadFromSource fails at compilation it returns the
\* diagnostic and the Shader keeps the handle the device returned; that
\* device object is deleted exactly once afterwards, when the Shader that
\* holds it is destroyed or is the target of a move assignment, and not by a
\* moved-from Shader.
C27_FailedShaderDeletedOnce ==
    [][/\ (last'.op = "load" /\ Len(history') > Len(history)
            /\ last'.rejects # {} /\ last'.out # <<>> /\ last'.out["Vertex"] # 0)
          => /\ last'.ret = CompileDiagnostic
             /\ shaders'[last'.obj].handle = last'.out["Vertex"]
             /\ last'.out["Vertex"] \in FailedShaders(gl')
       /\ \A h \in FailedShaders(gl) :
             /\ h \notin gl'.shaderNames
                   => /\ last'.op \in {"destroy", "move-assign"}
                      /\ shaders[last'.obj].handle = h
                      /\ Cardinality(DeletesOf(calls', h)) = 1
             /\ (Len(history') > Len(history) /\ last'.op \in {"destroy", "move-assign"}
                   /\ shaders[last'.obj].handle = h)
                   => h \notin gl'.shaderNames
       /\ \A i \in 1..Len(calls') :
             calls'[i].op = "glDeleteShader"
                => (calls'[i].args[1] = 0 \/ calls'[i].args[1] \in gl.shaderNames)
      ]_vars

\* The compilation of the source loaded into shader 2 has failed: the
\* diagnostic is returned and the shader holds the handle of the failed device
\* object.  Shader 1 has been loaded and destroyed before.
C27_Witness ==
    /\ Len(history) = 3
    /\ history[1] = OwnStep("load", "Shader", 1, 0)
    /\ history[2] = OwnStep("destroy", "Shader", 1, 0)
    /\ history[3] = OwnStep("load", "Shader", 2, 0)
    /\ last.ret = CompileDiagnostic
    /\ shaders[2].handle # 0
    /\ shaders[2].handle \in FailedShaders(gl)
    /\ gl.shaderNames = {shaders[2].handle}

\* The step just made is an operation on a VAO, or buffer.freeMem().
VaoStep ==
    /\ Len(history') = Len(history) + 1
    /\ history'[Len(history')].class = "VAO"

BufferFreeStep ==
    /\ Len(history') = Len(history) + 1
    /\ history'[Len(history')] = OwnStep("freeMem", "Buffer", 1, 0)

\* A vertex array of the device records buffer name h for one of its slots.
RecordedByVao(g, h) ==
    \E v \in g.vaoNames, s \in Slots : g.attribs[v][s].buffer = h

\* C28: no VAO operation (init, bind, unbind, freeMem, move, destruction)
\* deletes or modifies the handle of a Buffer, in the object or on the
\* device, and Buffer::freeMem is permitted while a VAO still records the
\* buffer: it deletes the buffer, raises no error and fails no assertion.
C28_VaoOwnsNoBuffer ==
    [][/\ VaoStep =>
            /\ bufs' = bufs
            /\ gl'.bufNames = gl.bufNames
            /\ gl'.buffers = gl.buffers
            /\ gl'.bound = gl.bound
       /\ (BufferFreeStep /\ bufs[1].handle \in gl.bufNames
             /\ RecordedByVao(gl, bufs[1].handle))
            => /\ crashed' = ""
               /\ gl'.err = "GL_NO_ERROR"
               /\ bufs[1].handle \notin gl'.bufNames
               /\ gl'.vaoNames = gl.vaoNames
      ]_vars

\* The buffer was initialised with a layout under the bound VAO, which then
\* records it, and has been freed while that VAO exists.
C28_Witness ==
    /\ history = <<OwnStep("init", "VAO", 1, 0), OwnStep("bind", "VAO", 1, 0),
                   OwnStep("init", "Buffer", 1, 0), OwnStep("freeMem", "Buffer", 1, 0)>>
    /\ crashed = ""
    /\ bufs[1].handle # 0 /\ bufs[1].handle \notin gl.bufNames
    /\ vaos[1].handle \in gl.vaoNames /\ gl.vaoBound = vaos[1].handle
    /\ RecordedByVao(gl, bufs[1].handle)
    /\ CallsOf({"glDeleteBuffers"}) # {}

\* The positions at which the loop of Pipeline::init starts an iteration that
\* it completes (the kind is known), from pos on, at most fuel of them.
RECURSIVE LoopHeads(_, _, _, _)
LoopHeads(str, pos, fuel, env) ==
    IF fuel = 0 \/ ~(pos >= 0 /\ pos < Len(str)) THEN {}
    ELSE IF DirectiveType(str, SkipBlank(str, pos), env) \notin ShaderTypes THEN {}
    ELSE {pos} \cup LoopHeads(str, IterationEnd(str, pos), fuel - 1, env)

\* Each completed iteration on the file leaves the position further on.
StrictProgress(f) ==
    \A stray \in StrayTypes :
        \A pos \in LoopHeads(f.bytes, find_first_of(f.bytes, Directive, 0), MaxLoop,
                             [Env0 EXCEPT !.stray = stray]) :
            IterationEnd(f.bytes, pos) > pos

\* C29: Pipeline::init terminates for every file content: each iteration of
\* the marker loop moves the current position strictly forward, also when the
\* last marker line has no terminating newline or the text of a stage is
\* empty.
C29_StrictProgress ==
    (last.op = "Pipeline::init" /\ file.exists) => StrictProgress(file)

\* The same for the files in which every marker line ends with a newline,
\* empty texts included: this part of C29 the code fulfils.
C29_TerminatedLines ==
    (last.op = "Pipeline::init" /\ file.exists /\ file \notin UnterminatedFiles)
        => StrictProgress(file)

C29_TerminatedReached ==
    /\ Parsed /\ ~hasError(last.ret)
    /\ file = File(TwoStages(VertexToken, <<>>, FragmentToken, <<>>))
    /\ DOMAIN shaders = ShaderTypes
    /\ StrictProgress(file)

\* The device delete calls and the names each of them may still delete.
DeleteCalls ==
    {"glDeleteBuffers", "glDeleteVertexArrays", "glDeleteTextures", "glDeleteShader",
     "glDeleteProgram"}

LiveNames(g, op) ==
    CASE op = "glDeleteBuffers" -> g.bufNames
      [] op = "glDeleteVertexArrays" -> g.vaoNames
      [] op = "glDeleteTextures" -> g.texNames
      [] op = "glDeleteShader" -> g.shaderNames
      [] op = "glDeleteProgram" -> g.progNames

\* No delete call of the step names a handle that has been deleted before.
NoRepeatedDelete(ops) ==
    \A i \in 1..Len(calls') :
        calls'[i].op \in ops
            => (calls'[i].args[1] = 0 \/ calls'[i].args[1] \in LiveNames(gl, calls'[i].op))

\* C30: every device handle the layer allocates is passed to a device delete
\* call at most once over the life of its owner: freeMem() followed by the
\* destructor, by a second freeMem() or by a move assignment into the object
\* never deletes again a handle value that the device may have reissued.
C30_DeletedAtMostOnce ==
    [][NoRepeatedDelete(DeleteCalls)]_vars

\* The same for the handles of Shader and Program objects: this part of C30
\* the code fulfils.
C30_ShaderAndProgram ==
    [][NoRepeatedDelete({"glDeleteShader", "glDeleteProgram"})]_vars

C30_ShaderAndProgramReached ==
    /\ Len(history) = 3
    /\ history[1] = OwnStep("init", "Program", 1, 0)
    /\ history[2] = OwnStep("freeMem", "Program", 1, 0)
    /\ history[3] = OwnStep("destroy", "Program", 1, 0)
    /\ crashed = "" /\ progs[1].handle = 0
    /\ CallsOf({"glDeleteProgram"}) = {}

\* Every object of the device is held by an object of the layer that exists.
NoOrphan ==
    \A class \in OwnerClasses :
        \A h \in DeviceNames(gl, class) : Holders(class, h) # {}

\* C31: every device object the layer creates is deleted by the time its
\* owner is destroyed: an initialising operation called again on an object
\* that already holds a handle does not leave the device object created
\* before undeleted, so no device object is ever without an owner.
C31_NoLeakOnReinit ==
    history # <<>> => NoOrphan

\* The step initialises an object that holds a handle, or assigns to a
\* Texture2D.
OverwritesHandle ==
    /\ Len(history') = Len(history) + 1
    /\ LET e == history'[Len(history')]
       IN \/ e.op = "init" /\ HandleOf(e.class, Objs(e.class)[e.id]) # 0
          \/ e.op = "move-assign" /\ e.class = "Texture2D"

\* Every other step keeps each device object with an owner: this part of C31
\* the code fulfils.
C31_OtherStepsKeepOwners ==
    [][(NoOrphan /\ ~OverwritesHandle) => NoOrphan']_vars

C31_OtherStepsReached ==
    /\ Len(history) = 3
    /\ history[1] = OwnStep("init", "Buffer", 1, 0)
    /\ history[2] = OwnStep("move-assign", "Buffer", 2, 1)
    /\ history[3] = OwnStep("destroy", "Buffer", 2, 0)
    /\ gl.bufNames = {} /\ bufs[1].handle = 0

InitOrUpload == {"init1", "init2", "init3", "upload"}

\* The buffer the last operation was called on is the one bound to its target.
StillBound ==
    /\ bufs[last.obj].handle # 0
    /\ gl.bound[bufs[last.obj].type] = bufs[last.obj].handle

\* C33: after init or upload has returned, with success or with a failure,
\* the buffer is not bound to its target.
C33_UnboundOnReturn ==
    (last.op \in InitOrUpload /\ crashed = "") => ~StillBound

\* The buffer is left bound only by a return with a failure.
C33_UnboundUnlessFailed ==
    (last.op \in InitOrUpload /\ crashed = "" /\ StillBound) => hasError(last.ret)

\* An upload past the end of the allocation has failed and left the buffer bound.
C33_FailedReached ==
    /\ last.op = "upload" /\ crashed = ""
    /\ last.ret.status = "GL_INVALID_VALUE"
    /\ StillBound

(***************************************************************************)
(* C34: P.setUniform(name, value) writes only to uniforms of program P:    *)
(* when a different program Q is the one in use, the call changes no       *)
(* uniform value of Q.  setUniform looks the location up in P and hands it *)
(* to glUniform, which writes to the program in use.                       *)
(***************************************************************************)
\* The uniform values of every program but prog are the same after the step.
OthersKept(prog) ==
    \A n \in ObjNames \ {prog} : gl'.program[n].uniform = gl.program[n].uniform

\* C34: a call of P.setUniform changes no uniform value of a program other
\* than P.
C34_WritesOwnProgramOnly ==
    [][SetUniformStep => OthersKept(last'.handle)]_vars

\* What the call does: it changes no uniform value of a program other than
\* the one in use.
C34_WritesProgramInUse ==
    [][SetUniformStep => OthersKept(gl.curProgram)]_vars

\* Program 1 is in use, setUniform was called on program 2 and has returned
\* success, and the uniform of program 1 holds the value of that call.
C34_OtherProgramWritten ==
    /\ last.op = "Program::setUniform" /\ crashed = "" /\ ~hasError(last.ret)
    /\ last.handle = 2 /\ gl.curProgram = 1
    /\ last.size = 2 /\ gl.program[1].uniform = 2
    /\ gl.program[2].uniform # 2

(***************************************************************************)
(* C35: B.map(access) and B.unmap() act on buffer B only: whichever buffer *)
(* is bound to the same target, a successful map on B never exposes the    *)
(* memory of a different buffer and unmap on B never unmaps a different    *)
(* buffer.  Both operations pass the target of B to the device and not its *)
(* handle.                                                                 *)
(***************************************************************************)
MapStep == last'.op = "map" /\ calls' # <<>> /\ crashed' = "" /\ ~hasError(last'.ret)

UnmapStep == last'.op = "unmap" /\ calls' # <<>> /\ crashed' = ""

\* The buffers other than b are mapped after the step iff they were before.
OtherMappingsKept(b) ==
    \A n \in Names \ {b} : gl'.buffers[n].mapped = gl.buffers[n].mapped

\* C35: a successful map on B exposes the memory of B, and neither map nor
\* unmap on B changes whether a different buffer is mapped.
C35_MapsOwnBufferOnly ==
    [][/\ MapStep => (last'.out = last'.handle /\ OtherMappingsKept(last'.handle))
       /\ UnmapStep => OtherMappingsKept(last'.handle)]_vars

\* What the calls do: they act on the buffer that is bound to the target of B.
C35_MapsBoundBuffer ==
    [][/\ MapStep => (last'.out = gl.bound[bufs[last'.obj].type]
                        /\ OtherMappingsKept(last'.out))
       /\ UnmapStep => OtherMappingsKept(gl.bound[bufs[last'.obj].type])]_vars

\* Buffer 2 is bound, and map on buffer 1 has returned success with the
\* memory of buffer 2.
C35_OtherBufferMapped ==
    /\ last.op = "map" /\ crashed = "" /\ ~hasError(last.ret)
    /\ last.obj = 1 /\ last.handle = 1 /\ last.out = 2
    /\ gl.buffers[2].mapped /\ ~gl.buffers[1].mapped

(***************************************************************************)
(* SpecIndex: an IndexBuffer and the VAO.  The buffer is initialised,       *)
(* uploaded to and bound while the VAO is bound and while it is not.       *)
(***************************************************************************)
IndexSizes == 0..MaxSize

InitIndex ==
    /\ InitObjects
    /\ bufs = [i \in BufIds |-> BufferBase("Index")]

NextIndex ==
    \/ VaoInit({1}) \/ VaoBind \/ VaoUnbind
    \/ BufInit1({1}, {1}, IndexSizes)
    \/ BufInit2({1}, {1}, IndexSizes)
    \/ BufUpload({1}, {0}, IndexSizes)
    \/ BufBind({1})

SpecIndex == InitIndex /\ [][NextIndex]_vars

(***************************************************************************)
(* C36: if an IndexBuffer is initialised or uploaded while a VAO V is      *)
(* bound, then after the call returns V still records that index buffer as *)
(* its element buffer: the unbind at the end of init and upload does not   *)
(* reset V's recorded index buffer to none.                                *)
(***************************************************************************)
\* init or upload of an initialised buffer has returned success with a VAO bound.
IndexWrittenUnderVao ==
    /\ last.op \in {"init1", "init2", "upload"}
    /\ crashed = "" /\ ~hasError(last.ret)
    /\ bufs[last.obj].handle # 0
    /\ gl.vaoBound # 0

\* C36: after init or upload of an IndexBuffer with VAO V bound, V records
\* that buffer as its element buffer.
C36_VaoKeepsIndexBuffer ==
    IndexWrittenUnderVao => gl.element[gl.vaoBound] = bufs[last.obj].handle

\* What the code does: after such a call V records no element buffer.
C36_VaoLosesIndexBuffer ==
    IndexWrittenUnderVao => gl.element[gl.vaoBound] = 0

\* The VAO is bound, two bytes were uploaded to the index buffer the device
\* names 1, and the VAO records no element buffer.
C36_LostReached ==
    /\ IndexWrittenUnderVao
    /\ last.op = "upload" /\ last.size = 2 /\ last.handle = 1
    /\ Len(gl.buffers[1].store) = 2
    /\ gl.vaoBound = 1 /\ gl.element[1] = 0

(***************************************************************************)
(* Morph2D (geometry_primitives): the two shapes are read into one         *)
(* interleaved array, which is uploaded with a layout of two vec3          *)
(* attributes.  A vertex is named by the curve function and the number of  *)
(* the sample; sizes passed to the device are in units of sizeof(vec3).    *)
(***************************************************************************)
CurveFunctions == {"circleEquation", "squareEquation"}

Sample(f, i) == [f |-> f, i |-> i]

\* What a read past the end of a vector's storage may find.
Garbage == Sample("garbage", 0)

\* Curve::init(f, vertexCountIn, flags): vertexCountIn samples and, for a
\* closed curve, the first one again.
Curve_init(f, vertexCountIn, isClosed) ==
    LET open == [i \in 1..vertexCountIn |-> Sample(f, i - 1)]
    IN [vertexCount |-> vertexCountIn + (IF isClosed THEN 1 ELSE 0),
        vertices |-> IF isClosed THEN Append(open, open[1]) ELSE open]

\* assert(vertexCountIn > 1)
Curves ==
    {Curve_init(f, n, c) : f \in CurveFunctions, n \in 2..MaxCurveVerts, c \in BOOLEAN}

Max(a, b) == IF a >= b THEN a ELSE b

\* The vertices the loop of Morph2D::init reads, in order: start.getVertices()[i]
\* and end.getVertices()[i] for i < vertexCount.
Morph2D_reads(vertexCount) ==
    [k \in 1..(2 * vertexCount) |->
        [shape |-> IF k % 2 = 1 THEN "start" ELSE "end", index |-> (k - 1) \div 2]]

\* shape.getVertices()[i]: past the end of the storage the value is indeterminate.
ReadVertex(shape, i) ==
    IF i < Len(shape.vertices) THEN shape.vertices[i + 1] ELSE Garbage

\* data[idx] = start.getVertices()[i]; data[idx + 1] = end.getVertices()[i];
Morph2D_data(start, end) ==
    LET vertexCount == Max(start.vertexCount, end.vertexCount)
    IN [k \in 1..(2 * vertexCount) |->
           IF k % 2 = 1 THEN ReadVertex(start, (k - 1) \div 2)
           ELSE ReadVertex(end, (k - 1) \div 2)]

\* Morph2D::init(start, end).  A read past the end of a shape's vertices
\* either finds indeterminate values or faults (fault).
Morph2D_init(r, vao, vb, start, end, fault, env) ==
    LET vertexCount == Max(start.vertexCount, end.vertexCount)
        data == Morph2D_data(start, end)
        past == vertexCount > start.vertexCount \/ vertexCount > end.vertexCount
        l == addAttribute(addAttribute(EmptyLayout, "Float", 3, FALSE), "Float", 3, FALSE)
        vao1 == [vao EXCEPT !.handle = env.name]
        r0 == IF past /\ fault THEN Abort(r, "read past the end") ELSE r
        r1 == Sub(r0, LAMBDA x : VAO_init(x, vao, env))
        r2 == Sub(r1, LAMBDA x : VAO_bind(x, vao1, env))
        r3 == Sub(r2, LAMBDA x : BufferBase_init3(x, vb, Len(data), Data(data), l, env))
        r4 == Sub(r3, LAMBDA x : VAO_unbind(x, vao1, env))
    IN Bind(r4, LAMBDA x : Return(x, NoError))

(***************************************************************************)
(* SpecMorph: one Morph2D, initialised from every pair of curves.          *)
(***************************************************************************)
InitMorph ==
    /\ InitObjects
    /\ bufs = [i \in BufIds |-> BufferBase("Vertex")]

\* morph.init(start, end)
MorphInit ==
    /\ crashed = ""
    /\ \E start \in Curves, end \in Curves, fault \in BOOLEAN, n \in Names \ gl.vaoNames :
       \E r \in {Morph2D_init(Start(gl), vaos[1], bufs[1], start, end, fault,
                               [Env0 EXCEPT !.name = n])} :
         LET vertexCount == Max(start.vertexCount, end.vertexCount)
         IN /\ Ran(r, [NoOp EXCEPT !.op = "Morph2D::init", !.obj = 1, !.handle = n,
                                   !.size = vertexCount])
            /\ history' = Append(history,
                                 [start |-> start, end |-> end,
                                  reads |-> Morph2D_reads(vertexCount)])
            /\ vaos' = IF \E i \in 1..Len(r.calls) : r.calls[i].op = "glGenVertexArrays"
                       THEN [vaos EXCEPT ![1].handle = n] ELSE vaos
            /\ bufs' = IF \E i \in 1..Len(r.calls) : r.calls[i].op = "glGenBuffers"
                       THEN [bufs EXCEPT ![1].handle = n] ELSE bufs
    /\ Forget
    /\ UNCHANGED <<layout, stride, texs, progs, shaders, file>>

NextMorph == MorphInit

SpecMorph == InitMorph /\ [][NextMorph]_vars

(***************************************************************************)
(* C37: Morph2D::init(start, end) reads from each shape only vertex        *)
(* indices below that shape's own getVertexCount(), for every pair of      *)
(* vertex counts, different counts included.                               *)
(***************************************************************************)
CountOf(e, shape) == IF shape = "start" THEN e.start.vertexCount ELSE e.end.vertexCount

\* Every read of the init logged as e is below the bound given for its shape.
ReadsBelow(e, bound(_)) ==
    \A k \in 1..Len(e.reads) : e.reads[k].index < bound(e.reads[k].shape)

\* C37: every init reads from each shape only indices below that shape's
\* vertex count.
C37_ReadsWithinOwnCount ==
    \A j \in 1..Len(history) :
        LET e == history[j] IN ReadsBelow(e, LAMBDA shape : CountOf(e, shape))

\* What the loop does: it reads both shapes below the larger of the two
\* counts, which is each shape's own count when the counts are equal.
C37_ReadsWithinLargerCount ==
    \A j \in 1..Len(history) :
        LET e == history[j]
            larger == Max(e.start.vertexCount, e.end.vertexCount)
        IN /\ ReadsBelow(e, LAMBDA shape : larger)
           /\ e.start.vertexCount = e.end.vertexCount
                 => ReadsBelow(e, LAMBDA shape : CountOf(e, shape))

\* The start shape has two vertices and the end shape four, init has
\* returned success, and the uploaded array holds indeterminate values.
C37_PastTheEndReached ==
    /\ last.op = "Morph2D::init" /\ crashed = "" /\ ~hasError(last.ret)
    /\ Len(history) = 1
    /\ history[1].start.vertexCount = 2 /\ history[1].end.vertexCount = 4
    /\ \E k \in 1..Len(history[1].reads) :
          history[1].reads[k] = [shape |-> "start", index |-> 3]
    /\ gl.buffers[last.handle].store[7] = Garbage

(***************************************************************************)
(* Axes (geometry_primitives).  Range bounds and the mark spacing are      *)
(* whole numbers, for which the float arithmetic of init is exact;         *)
(* coordinates of vertices are kept in tenths, markHalfLength being 0.1.   *)
(***************************************************************************)
\* Range2D(from, to): assert(from <= to)
Range2D(from, to) == [from |-> from, to |-> to]

Ranges == UNION {{Range2D(a, b) : b \in a..MaxRange} : a \in (0 - MaxRange)..MaxRange}

getLength(rg) == rg.to - rg.from

contains(rg, x) == x >= rg.from /\ x <= rg.to

\* getMid() in tenths: (to - from) / 2
getMidTenths(rg) == (rg.to - rg.from) * 5

\* int(a / b) for a float quotient: the fraction is dropped, towards zero.
IntOfQuotient(a, b) == IF a >= 0 THEN a \div b ELSE 0 - ((0 - a) \div b)

\* Axes::Axes(): xRange{0, 0}, yRange{0, 0}, lineVertexCount{0}
Axes == [xRange |-> Range2D(0, 0), yRange |-> Range2D(0, 0), lineVertexCount |-> 0]

\* for (float pos = start; pos < to; pos += markDh): the positions visited.
RECURSIVE MarkPositions(_, _, _)
MarkPositions(pos, to, markDh) ==
    IF pos < to THEN <<pos>> \o MarkPositions(pos + markDh, to, markDh) ELSE <<>>

Vertex(x, y) == [x |-> x, y |-> y]

\* The two vertices of each mark, in tenths; across is the coordinate of the
\* axis the marks sit on, along tells which coordinate the position is.
RECURSIVE MarkVertices(_, _, _)
MarkVertices(positions, across, along) ==
    IF positions = <<>> THEN <<>>
    ELSE LET p == Head(positions) * 10
         IN (IF along = "x" THEN <<Vertex(p, across - 1), Vertex(p, across + 1)>>
             ELSE <<Vertex(across - 1, p), Vertex(across + 1, p)>>)
            \o MarkVertices(Tail(positions), across, along)

\* The vector lineVertices that Axes::init builds.
Axes_lineVertices(xRange, yRange, markDh) ==
    LET xAxisYCoordinate == IF contains(yRange, 0) THEN 0 ELSE getMidTenths(yRange)
        yAxisXCoordinate == IF contains(xRange, 0) THEN 0 ELSE getMidTenths(xRange)
        xMarkStart == IntOfQuotient(xRange.from, markDh) * markDh
        yMarkStart == IntOfQuotient(yRange.from, markDh) * markDh
    IN <<Vertex(xRange.from * 10, xAxisYCoordinate), Vertex(xRange.to * 10, xAxisYCoordinate),
         Vertex(yAxisXCoordinate, yRange.from * 10), Vertex(yAxisXCoordinate, yRange.to * 10)>>
       \o MarkVertices(MarkPositions(xMarkStart, xRange.to, markDh), xAxisYCoordinate, "x")
       \o MarkVertices(MarkPositions(yMarkStart, yRange.to, markDh), yAxisXCoordinate, "y")

\* totalVertices, the number init reserves room for.
Axes_totalVertices(xRange, yRange, markDh) ==
    LET axisCount == 2
        xMarksCount == IntOfQuotient(getLength(xRange), markDh)
        yMarksCount == IntOfQuotient(getLength(yRange), markDh)
        totalLinesCount == xMarksCount + yMarksCount + axisCount
    IN totalLinesCount * 2

\* Axes::init(xRangeIn, yRangeIn, markDh): the assertion compares the member
\* lineVertexCount, which is assigned only after it, with the vector's size.
Axes_init(r, axes, vao, vb, xRangeIn, yRangeIn, markDh, env) ==
    LET lineVertices == Axes_lineVertices(xRangeIn, yRangeIn, markDh)
        l == addAttribute(EmptyLayout, "Float", 3, FALSE)
        vao1 == [vao EXCEPT !.handle = env.name]
        r0 == IF axes.lineVertexCount = Len(lineVertices) THEN r
              ELSE Abort(r, "assertion failed")
        r1 == Sub(r0, LAMBDA x : VAO_init(x, vao, env))
        r2 == Sub(r1, LAMBDA x : VAO_bind(x, vao1, env))
        r3 == Sub(r2, LAMBDA x : BufferBase_init3(x, vb, Len(lineVertices),
                                                  Data(lineVertices), l, env))
        r4 == Sub(r3, LAMBDA x : VAO_unbind(x, vao1, env))
    IN Bind(r4, LAMBDA x : Return(x, NoError))

\* The members of the Axes after init: the ranges are assigned first, the
\* count after the assertion.
Axes_afterInit(axes, xRangeIn, yRangeIn, markDh) ==
    LET size == Len(Axes_lineVertices(xRangeIn, yRangeIn, markDh))
    IN [xRange |-> xRangeIn, yRange |-> yRangeIn,
        lineVertexCount |-> IF axes.lineVertexCount = size THEN size
                            ELSE axes.lineVertexCount]

(***************************************************************************)
(* SpecAxes: one freshly constructed Axes, kept in layout, and the calls   *)
(* of init on it.                                                          *)
(***************************************************************************)
InitAxes ==
    /\ layout = Axes /\ stride = 0 /\ history = <<>>
    /\ gl = GLInit
    /\ bufs = [i \in BufIds |-> BufferBase("Vertex")]
    /\ vaos = [v \in VaoIds |-> VAO]
    /\ texs = <<>> /\ progs = <<>> /\ shaders = <<>> /\ file = <<>>
    /\ last = NoOp /\ calls = <<>> /\ wr = NoWrite /\ crashed = ""

\* axes.init(xRange, yRange, markDh)
AxesInit ==
    /\ crashed = ""
    /\ \E xRangeIn \in Ranges, yRangeIn \in Ranges, markDh \in 1..MaxMarkDh,
          n \in Names \ gl.vaoNames :
       \E r \in {Axes_init(Start(gl), layout, vaos[1], bufs[1], xRangeIn, yRangeIn, markDh,
                            [Env0 EXCEPT !.name = n])} :
         LET lineVertices == Axes_lineVertices(xRangeIn, yRangeIn, markDh)
         IN /\ Ran(r, [NoOp EXCEPT !.op = "Axes::init", !.obj = 1, !.handle = n,
                                   !.size = Len(lineVertices)])
            /\ history' = Append(history,
                                 [xRange |-> xRangeIn, yRange |-> yRangeIn, markDh |-> markDh,
                                  lineVertexCount |-> layout.lineVertexCount,
                                  reserved |-> Axes_totalVertices(xRangeIn, yRangeIn, markDh),
                                  lineVertices |-> lineVertices])
            /\ layout' = Axes_afterInit(layout, xRangeIn, yRangeIn, markDh)
            /\ vaos' = IF \E i \in 1..Len(r.calls) : r.calls[i].op = "glGenVertexArrays"
                       THEN [vaos EXCEPT ![1].handle = n] ELSE vaos
            /\ bufs' = IF \E i \in 1..Len(r.calls) : r.calls[i].op = "glGenBuffers"
                       THEN [bufs EXCEPT ![1].handle = n] ELSE bufs
    /\ Forget
    /\ UNCHANGED <<stride, texs, progs, shaders, file>>

NextAxes == AxesInit

SpecAxes == InitAxes /\ [][NextAxes]_vars

(***************************************************************************)
(* C38: the assertion in Axes::init that lineVertexCount equals the number *)
(* of generated line vertices holds on every call of init on a freshly     *)
(* constructed Axes, for every x range, y range and mark spacing.          *)
(***************************************************************************)
\* C38: at the assertion of every init, lineVertexCount is the number of
\* vertices generated, and init does not abort.
C38_AssertionHolds ==
    /\ \A j \in 1..Len(history) :
          history[j].lineVertexCount = Len(history[j].lineVertices)
    /\ last.op = "Axes::init" => crashed = ""

\* What happens: the member is still 0 at the assertion, the vector holds
\* the four vertices of the two axes at least, and init aborts.
C38_AssertionFails ==
    /\ \A j \in 1..Len(history) :
          /\ history[j].lineVertexCount = 0
          /\ Len(history[j].lineVertices) >= 4
    /\ last.op = "Axes::init" => (crashed = "assertion failed" /\ calls = <<>>)

\* init was called with x in [-1, 1], y in [0, 2] and marks every 1: eight
\* vertices of marks were generated after the four of the axes.
C38_FailedReached ==
    /\ last.op = "Axes::init" /\ crashed = "assertion failed"
    /\ Len(history) = 1
    /\ history[1].xRange = Range2D(0 - 1, 1) /\ history[1].yRange = Range2D(0, 2)
    /\ history[1].markDh = 1
    /\ Len(history[1].lineVertices) = 12
    /\ layout.lineVertexCount = 0

====
